---- MODULE Spec2Model ----
(***************************************************************************)
(* Verification model of staff-in-a-box: the session chat handler of the   *)
(* standalone servers (minimal-server.js and the "intelligent fallback"    *)
(* server), and the rule-based agents behind the orchestrator              *)
(* (coordinator, receptionist, sales).                                     *)
(*                                                                         *)
(* Messages are real strings.  The JavaScript string methods the code      *)
(* relies on (toLowerCase, includes, trim, split, RegExp match) are        *)
(* modelled character by character, so that a keyword hit, an extracted    *)
(* e-mail address or a captured name is computed, not assumed.             *)
(***************************************************************************)
EXTENDS Integers, Sequences, FiniteSets, TLC

(***************************************************************************)
(* JavaScript strings                                                      *)
(***************************************************************************)

UpperChars == "ABCDEFGHIJKLMNOPQRSTUVWXYZ"
LowerChars == "abcdefghijklmnopqrstuvwxyz"

charAt(s, i) == SubSeq(s, i, i)

CharsOf(s) == { charAt(s, i) : i \in 1..Len(s) }

Letters == CharsOf(UpperChars) \cup CharsOf(LowerChars)
Digits == CharsOf("0123456789")
Whitespace == {" ", "\t", "\n"}

\* String.prototype.toLowerCase, one character
lowerChar(c) ==
    IF c \in CharsOf(UpperChars)
    THEN charAt(LowerChars, CHOOSE i \in 1..Len(UpperChars) : charAt(UpperChars, i) = c)
    ELSE c

RECURSIVE toLowerCase(_)
toLowerCase(s) ==
    IF s = "" THEN ""
    ELSE lowerChar(charAt(s, 1)) \o toLowerCase(SubSeq(s, 2, Len(s)))

\* String.prototype.includes: kw occurs in s as a contiguous substring
includes(s, kw) ==
    \E i \in 1..(Len(s) - Len(kw) + 1) : SubSeq(s, i, i + Len(kw) - 1) = kw

\* kw occurs in s starting exactly at position i
startsAt(s, i, kw) ==
    /\ i >= 1
    /\ i + Len(kw) - 1 <= Len(s)
    /\ SubSeq(s, i, i + Len(kw) - 1) = kw

\* Array.prototype.some over a list of keywords, with String.prototype.includes
someIncluded(keywords, s) == \E k \in 1..Len(keywords) : includes(s, keywords[k])

\* every character of s is in the class cls
allIn(s, cls) == \A i \in 1..Len(s) : charAt(s, i) \in cls

\* number of leading characters of s, from position i on, that belong to cls
RECURSIVE runLength(_, _, _)
runLength(s, i, cls) ==
    IF i <= Len(s) /\ charAt(s, i) \in cls THEN 1 + runLength(s, i + 1, cls) ELSE 0

\* String.prototype.trim
RECURSIVE trimStart(_)
trimStart(s) ==
    IF s # "" /\ charAt(s, 1) \in Whitespace THEN trimStart(SubSeq(s, 2, Len(s))) ELSE s

RECURSIVE trimEnd(_)
trimEnd(s) ==
    IF s # "" /\ charAt(s, Len(s)) \in Whitespace THEN trimEnd(SubSeq(s, 1, Len(s) - 1)) ELSE s

trim(s) == trimEnd(trimStart(s))

\* message.split(',')[0]: the text before the first comma (the whole text if none)
RECURSIVE beforeComma(_)
beforeComma(s) ==
    IF s = "" \/ charAt(s, 1) = "," THEN ""
    ELSE charAt(s, 1) \o beforeComma(SubSeq(s, 2, Len(s)))

\* trimmed.split(/\s+/).length for a trimmed, non-empty string: one more than
\* the number of maximal whitespace runs
wordCount(s) ==
    1 + Cardinality({ i \in 2..Len(s) :
                        charAt(s, i) \in Whitespace /\ charAt(s, i - 1) \notin Whitespace })

\* JavaScript's undefined, and truthiness of a string-or-undefined value
Undefined == "<undefined>"
Truthy(v) == v # Undefined /\ v # ""

(***************************************************************************)
(* Regular expressions.  A pattern is a sequence of atoms, each a          *)
(* character class with a minimum and a maximum repetition; quantifiers    *)
(* are greedy and backtrack, as in JavaScript's RegExp.                    *)
(***************************************************************************)

Atom(cls, lo, hi) == [cls |-> cls, min |-> lo, max |-> hi]
Min2(a, b) == IF a < b THEN a ELSE b
MaxOf(S) == CHOOSE m \in S : \A o \in S : o <= m
MinOf(S) == CHOOSE m \in S : \A o \in S : m <= o

\* The index just past the preferred match of pat[k..] at pos, or 0 if there is none.
RECURSIVE matchEnd(_, _, _, _)
RECURSIVE tryCount(_, _, _, _, _)
matchEnd(s, pat, k, pos) ==
    IF k > Len(pat) THEN pos
    ELSE tryCount(s, pat, k, pos, Min2(runLength(s, pos, pat[k].cls), pat[k].max))

tryCount(s, pat, k, pos, c) ==
    IF c < pat[k].min THEN 0
    ELSE LET r == matchEnd(s, pat, k + 1, pos + c)
         IN  IF r # 0 THEN r ELSE tryCount(s, pat, k, pos, c - 1)

\* String.prototype.match(regex)[0] for a regex without the g flag: the
\* preferred match at the leftmost position that has one, or Undefined (null)
matchFirst(s, pat) ==
    LET starts == { i \in 1..Len(s) : matchEnd(s, pat, 1, i) # 0 }
    IN  IF starts = {} THEN Undefined
        ELSE LET i == MinOf(starts)
             IN  SubSeq(s, i, matchEnd(s, pat, 1, i) - 1)

\* RegExp.prototype.test
regexTest(s, pat) == \E i \in 1..(Len(s) + 1) : matchEnd(s, pat, 1, i) # 0

\* /[a-zA-Z0-9._%+-]+@[a-zA-Z0-9.-]+\.[a-zA-Z]{2,}/
emailRegex ==
    << Atom(Letters \cup Digits \cup {".", "_", "%", "+", "-"}, 1, 1000),
       Atom({"@"}, 1, 1),
       Atom(Letters \cup Digits \cup {".", "-"}, 1, 1000),
       Atom({"."}, 1, 1),
       Atom(Letters, 2, 1000) >>

\* /(\+?1?[-.\s]?)?\(?([0-9]{3})\)?[-.\s]?([0-9]{3})[-.\s]?([0-9]{4})/
\* (the optional group holds only optional atoms, so it is written flat)
Separators == {"-", "."} \cup Whitespace
phoneRegex ==
    << Atom({"+"}, 0, 1), Atom({"1"}, 0, 1), Atom(Separators, 0, 1),
       Atom({"("}, 0, 1), Atom(Digits, 3, 3), Atom({")"}, 0, 1),
       Atom(Separators, 0, 1), Atom(Digits, 3, 3),
       Atom(Separators, 0, 1), Atom(Digits, 4, 4) >>

\* The alternatives of the three name patterns, in the order the code tries the
\* patterns; within a pattern, in the order of the alternation.  The i flag is
\* modelled by matching the literals against the lower-cased message.
namePatterns ==
    << <<"my name is", "i'm", "i am", "call me">>,
       <<"it's", "its", "this is">>,
       <<"my nae is", "my nam is">> >>

NameChars == Letters \cup Whitespace

\* (?:\s+and|,|$) at position e of the lower-cased message
nameTerminator(low, e) ==
    \/ /\ runLength(low, e, Whitespace) >= 1
       /\ startsAt(low, e + runLength(low, e, Whitespace), "and")
    \/ startsAt(low, e, ",")
    \/ e = Len(low) + 1

\* \s+([a-zA-Z\s]{2,30})(?:\s+and|,|$) from position p on: the capture group,
\* or Undefined.  \s+ and the group are greedy: the longest run of blanks that
\* admits a match, then the longest capture.
nameCapture(s, low, p) ==
    LET w == runLength(s, p, Whitespace)
        caps(q) == { c \in 2..Min2(runLength(s, q, NameChars), 30) : nameTerminator(low, q + c) }
        ws == { wc \in 1..w : caps(p + wc) # {} }
    IN  IF ws = {} THEN Undefined
        ELSE LET q == p + MaxOf(ws)
             IN  SubSeq(s, q, q + MaxOf(caps(q)) - 1)

\* message.match(pattern)[1] for one name pattern (a sequence of alternatives)
nameMatch(s, alts) ==
    LET low == toLowerCase(s)
        hit(i, a) == startsAt(low, i, alts[a])
                     /\ nameCapture(s, low, i + Len(alts[a])) # Undefined
        starts == { i \in 1..Len(s) : \E a \in 1..Len(alts) : hit(i, a) }
    IN  IF starts = {} THEN Undefined
        ELSE LET i == MinOf(starts)
                 a == MinOf({ b \in 1..Len(alts) : hit(i, b) })
             IN  nameCapture(s, low, i + Len(alts[a]))

(***************************************************************************)
(* Helper functions of the session chat servers                            *)
(***************************************************************************)

isGreeting(message) ==
    LET greetings == <<"hi", "hello", "hey", "good morning", "good afternoon", "good evening">>
    IN  someIncluded(greetings, toLowerCase(message))

\* minimal-server.js
isBusinessInquiry(message) ==
    LET businessKeywords == <<"website", "price", "cost", "quote", "project", "development",
                              "design", "ecommerce", "business", "site">>
    IN  someIncluded(businessKeywords, toLowerCase(message))

\* the server with the intelligent fallback: a wider keyword list
isBusinessInquiryWide(message) ==
    LET businessKeywords ==
            <<"website", "site", "web", "page", "homepage", "landing",
              "price", "cost", "quote", "pricing", "how much", "budget",
              "project", "development", "design", "build", "create", "make",
              "ecommerce", "e-commerce", "store", "shop", "business",
              "simple", "basic", "complex", "custom", "professional",
              "need", "want", "looking for", "require", "help with">>
    IN  someIncluded(businessKeywords, toLowerCase(message))

shouldCollectLead(message) ==
    LET leadTriggers == <<"price", "cost", "quote", "how much", "pricing", "urgent", "asap",
                          "project", "build", "need">>
    IN  someIncluded(leadTriggers, toLowerCase(message))

NameStoplist == {"ok", "yes", "no", "sure", "thanks", "hello", "hi", "hey"}

\* The name found by the loop over namePatterns: the capture of the first
\* pattern that matches, trimmed; Undefined if no pattern matches.
RECURSIVE patternName(_, _)
patternName(message, k) ==
    IF k > Len(namePatterns) THEN Undefined
    ELSE LET m == nameMatch(message, namePatterns[k])
         IN  IF m # Undefined THEN trim(m) ELSE patternName(message, k + 1)

\* extractLeadInfo: a key the code leaves unset is Undefined here
extractLeadInfo(message) ==
    LET email == matchFirst(message, emailRegex)
        phone == matchFirst(message, phoneRegex)
        name1 == patternName(message, 1)
        \* "Name, email@domain.com"
        potentialName == trim(beforeComma(message))
        name2 == IF /\ email # Undefined
                    /\ ~Truthy(name1)
                    /\ includes(message, ",")
                    /\ Len(potentialName) >= 2 /\ Len(potentialName) <= 30
                    /\ allIn(potentialName, NameChars)
                 THEN potentialName ELSE name1
        \* a standalone name
        trimmed == trim(message)
        standalone == /\ ~Truthy(name2) /\ email = Undefined /\ phone = Undefined
                      /\ wordCount(trimmed) >= 1 /\ wordCount(trimmed) <= 3
                      /\ Len(trimmed) >= 2 /\ Len(trimmed) <= 30
                      /\ allIn(trimmed, NameChars)
                      /\ toLowerCase(trimmed) \notin NameStoplist
        name3 == IF standalone THEN trimmed ELSE name2
    IN  [ hasContact |-> email # Undefined \/ phone # Undefined \/ name1 # Undefined \/ standalone,
          email |-> email,
          phone |-> phone,
          name |-> name3 ]

(***************************************************************************)
(* The session chat handler, POST /api/agents/chat                         *)
(***************************************************************************)

\* the session object getSession creates for an unseen id
\* (consecutiveNonBusiness is left unset by getSession and normalised to 0 by
\* the fallback before it is first read, so unset is written 0; hasContact is
\* a key of leadInfo only after a merge, so unset is written FALSE)
NewSession ==
    [ hasGreeted |-> FALSE,
      hasMadeBusinessInquiry |-> FALSE,
      leadCollected |-> FALSE,
      messages |-> << >>,
      leadInfo |-> [ name |-> Undefined, email |-> Undefined, phone |-> Undefined,
                     inquiry |-> Undefined, hasContact |-> FALSE ],
      consecutiveNonBusiness |-> 0 ]

\* getSession: the map after the lookup-or-create
getSession(map, sessionId) ==
    IF sessionId \in DOMAIN map THEN map ELSE map @@ (sessionId :> NewSession)

\* { ...session.leadInfo, ...leadData }: every key leadData holds overwrites
mergeLeadInfo(leadInfo, leadData) ==
    [ name |-> IF leadData.name # Undefined THEN leadData.name ELSE leadInfo.name,
      email |-> IF leadData.email # Undefined THEN leadData.email ELSE leadInfo.email,
      phone |-> IF leadData.phone # Undefined THEN leadData.phone ELSE leadInfo.phone,
      inquiry |-> leadInfo.inquiry,
      hasContact |-> leadData.hasContact ]

\* session.leadInfo.name && (session.leadInfo.email || session.leadInfo.phone)
leadComplete(leadInfo) ==
    Truthy(leadInfo.name) /\ (Truthy(leadInfo.email) \/ Truthy(leadInfo.phone))

\* the argument of logLeadToSheet, then the record it logs
leadRecord(session) ==
    LET n == Len(session.messages)
        inquiry == IF Truthy(session.leadInfo.inquiry) THEN session.leadInfo.inquiry
                   ELSE IF n >= 2 /\ Truthy(session.messages[n - 1].content)
                        THEN session.messages[n - 1].content
                        ELSE "General inquiry"
    IN  [ name |-> session.leadInfo.name,
          email |-> IF Truthy(session.leadInfo.email) THEN session.leadInfo.email ELSE "Not provided",
          phone |-> IF Truthy(session.leadInfo.phone) THEN session.leadInfo.phone ELSE "Not provided",
          inquiry |-> inquiry,
          source |-> "AI Chat Widget" ]

\* (mutation: the thank-you does not name the lead)
thanksReplyAnonymous(session) ==
    "Thanks! I've got your information and someone from our team will reach out to you soon about your project. In the meantime, is there anything specific about your website requirements you'd like to discuss?"

thanksReply(session) ==
    "Thanks " \o session.leadInfo.name \o "! I've got your information and someone from our team will reach out to you soon about your project. In the meantime, is there anything specific about your website requirements you'd like to discuss?"

\* the targeted follow-up question when the lead is still incomplete
followUpReply(leadInfo, leadData) ==
    LET missingName == ~Truthy(leadInfo.name)
        missingContact == ~Truthy(leadInfo.email) /\ ~Truthy(leadInfo.phone)
        missing == IF missingName /\ missingContact THEN "name and email or phone number"
                   ELSE IF missingName THEN "name"
                   ELSE IF missingContact THEN "email or phone number"
                   ELSE ""
    IN  IF Truthy(leadData.name) /\ ~Truthy(leadData.email) /\ ~Truthy(leadData.phone)
        THEN "Thanks " \o leadData.name \o "! Could I also get your email or phone number so we can follow up with you about your project?"
        ELSE IF Truthy(leadData.email) /\ ~Truthy(leadData.name)
        THEN "I have your email address. Could I also get your name so we can personalize our follow-up?"
        ELSE IF Truthy(leadData.phone) /\ ~Truthy(leadData.name)
        THEN "I have your phone number. Could I also get your name so we can personalize our follow-up?"
        ELSE "Could I get your " \o missing \o "? This helps us follow up with you properly about your project."

GreetingReply ==
    "Hello! I'm here to help with your web development needs. What can I assist you with today?"

(***************************************************************************)
(* The message tests of the fallback responders                            *)
(***************************************************************************)

\* minimal-server.js: "Detect bot testing/spam behavior"
isSpammy(message) ==
    LET spamIndicators == <<"you are human", "are you a bot", "what time is it", "i like you", "what you do">>
    IN  someIncluded(spamIndicators, toLowerCase(message))

\* the intelligent fallback: one more indicator
isSpammyWide(message) ==
    LET spamIndicators == <<"you are human", "are you a bot", "what time is it", "i like you",
                            "what you do", "what is your name">>
    IN  someIncluded(spamIndicators, toLowerCase(message))

mentionsPrice(lowerMessage) ==
    includes(lowerMessage, "price") \/ includes(lowerMessage, "cost") \/ includes(lowerMessage, "how much")

\* "If we need to collect lead info": the three canned requests for contact
collectLeadReply(message) ==
    LET lowerMessage == toLowerCase(message)
    IN  IF mentionsPrice(lowerMessage)
        THEN "Our websites range from $1,500 for simple sites to $15,000+ for e-commerce. To give you an accurate quote, could I get your name and email or phone number?"
        ELSE IF includes(lowerMessage, "urgent")
        THEN "I understand this is urgent! I'll connect you with someone right away. Could I get your name and phone number?"
        ELSE "I'd be happy to help with your project. Could I get your name and contact information so I can have someone follow up with you?"

\* "Standard fallback responses", ending in the generic prompt
standardReply(message, generic) ==
    LET lowerMessage == toLowerCase(message)
    IN  IF mentionsPrice(lowerMessage)
        THEN "Our websites range from $1,500 for simple sites to $15,000+ for e-commerce. What type of project do you have in mind?"
        ELSE IF includes(lowerMessage, "urgent")
        THEN "I understand this is urgent! What type of website assistance do you need?"
        ELSE generic

GenericReply ==
    "Thanks for reaching out! I'd be happy to help you with your website project. What type of website are you looking for?"
GenericReplyWide ==
    "I'm here to help with your website project! What type of website are you thinking about?"

\* the intelligent fallback: "Handle name detection specially (but not if
\* it's a business type)"
introducesName(message) ==
    LET businessTypes == <<"salon", "restaurant", "store", "shop", "business", "website">>
        leadData == extractLeadInfo(message)
    IN  /\ ~someIncluded(businessTypes, toLowerCase(message))
        /\ leadData.hasContact
        /\ Truthy(leadData.name)

mentionsBusinessSite(message) ==
    toLowerCase(message) = "business" \/ includes(toLowerCase(message), "business website")

\* the intelligent fallback: "Handle business inquiries more intelligently",
\* falling through to the standard responses
inquiryReply(message) ==
    LET lowerMessage == toLowerCase(message)
        business == isBusinessInquiryWide(message)
    IN  IF business /\ (includes(lowerMessage, "simple") \/ includes(lowerMessage, "basic"))
        THEN "A simple website is a great choice! These typically include a homepage, about page, services, and contact info. Pricing starts around $1,500. What's your business about?"
        ELSE IF business /\ (includes(lowerMessage, "ecommerce") \/ includes(lowerMessage, "store") \/ includes(lowerMessage, "shop"))
        THEN "An online store is excellent for growing your business! E-commerce sites start around $8,000 and include product pages, shopping cart, and payment processing. What will you be selling?"
        ELSE IF business /\ (includes(lowerMessage, "need") \/ includes(lowerMessage, "want") \/ includes(lowerMessage, "looking for"))
        THEN "I'd love to help you get the website you need! What type of business or project is this for? That'll help me give you the best recommendations."
        ELSE standardReply(message, GenericReplyWide)

(***************************************************************************)
(* The messages of the model, and what the functions above return on each  *)
(* (evaluated once; the handler reads the results from this table).        *)
(***************************************************************************)

Corpus ==
    { "",
      "hi",
      "how much does a website cost",
      "my name is Dana, dana@example.com",
      "Dana",
      "dana@example.com",
      "what time is it",
      "salon",
      "ok",
      "hi, I need a website",
      "Sam" }

analyse(message) ==
    [ isGreeting |-> isGreeting(message),
      isBusinessInquiry |-> isBusinessInquiry(message),
      isBusinessInquiryWide |-> isBusinessInquiryWide(message),
      shouldCollectLead |-> shouldCollectLead(message),
      extractLeadInfo |-> extractLeadInfo(message),
      isSpammy |-> isSpammy(message),
      isSpammyWide |-> isSpammyWide(message),
      collectLeadReply |-> collectLeadReply(message),
      standardReply |-> standardReply(message, GenericReply),
      mentionsSalon |-> includes(toLowerCase(message), "salon"),
      introducesName |-> introducesName(message),
      mentionsRestaurant |-> includes(toLowerCase(message), "restaurant"),
      mentionsBusinessSite |-> mentionsBusinessSite(message),
      inquiryReply |-> inquiryReply(message) ]

AnalysisTable == [message \in Corpus |-> analyse(message)]

\* The tables are computed once, in the initial state, and never change.
VARIABLES
    analysisOf,      \* AnalysisTable in behaviours of the servers
    agentAnalysisOf  \* AgentAnalysisTable in behaviours of the agents

tables == <<analysisOf, agentAnalysisOf>>

(***************************************************************************)
(* The deterministic fallback responders.  Each returns the session as it  *)
(* leaves it and the reply text.                                           *)
(***************************************************************************)

Redirect1 == "I help with web development projects. Are you looking to build a website?"
Redirect2 == "I'm a virtual assistant focused on web development services. Do you have a website project I can help you with?"
Redirect3 == "I'm here specifically to help with web development projects. If you need a website, I'm happy to assist. Otherwise, have a great day!"

\* the reply of the spam branch for the counter value just incremented
redirectReply(count) ==
    IF count >= 4 THEN Redirect3 ELSE IF count >= 3 THEN Redirect2 ELSE Redirect1

\* session.hasMadeBusinessInquiry && !session.leadCollected && shouldCollectLead(message)
needsLeadInfo(session, message) ==
    session.hasMadeBusinessInquiry /\ ~session.leadCollected /\ analysisOf[message].shouldCollectLead

\* minimal-server.js
getStateAwareFallbackResponse(message, session) ==
    LET m == analysisOf[message]
        s1 == IF m.isBusinessInquiry THEN [session EXCEPT !.consecutiveNonBusiness = 0] ELSE session
    IN  IF m.isSpammy \/ (~m.isBusinessInquiry /\ session.consecutiveNonBusiness >= 2)
        THEN [ session |-> [session EXCEPT !.consecutiveNonBusiness = @ + 1],
               reply |-> redirectReply(session.consecutiveNonBusiness + 1) ]
        ELSE [ session |-> s1,
               reply |-> IF needsLeadInfo(s1, message) THEN m.collectLeadReply ELSE m.standardReply ]

\* session.hasMadeBusinessInquiry = true; session.leadInfo.inquiry = message
recordInquiry(session, message) ==
    [session EXCEPT !.hasMadeBusinessInquiry = TRUE, !.leadInfo.inquiry = message]

\* the server with the intelligent fallback
getIntelligentFallback(message, session) ==
    LET m == analysisOf[message]
        leadData == m.extractLeadInfo
        s1 == IF m.isBusinessInquiryWide THEN [session EXCEPT !.consecutiveNonBusiness = 0] ELSE session
        s2 == IF m.isBusinessInquiryWide THEN recordInquiry(s1, message) ELSE s1
    IN  IF session.hasGreeted /\ m.isGreeting
        THEN [ session |-> session, reply |-> "What can I help you with for your website project?" ]
        ELSE IF m.mentionsSalon
        THEN [ session |-> recordInquiry(session, message),
               reply |-> "Great! A salon website is a perfect way to showcase your services and allow online booking. What specific features are you looking for - online appointments, service galleries, or something else?" ]
        ELSE IF m.introducesName
        THEN [ session |-> [session EXCEPT !.leadInfo = mergeLeadInfo(@, leadData)],
               reply |-> "Hi " \o leadData.name \o "! Nice to meet you. What type of website project can I help you with?" ]
        ELSE IF m.mentionsRestaurant
        THEN [ session |-> recordInquiry(session, message),
               reply |-> "Excellent! Restaurant websites are great for showcasing your menu and taking online orders. Are you looking for online ordering, reservations, or just an informational site?" ]
        ELSE IF m.mentionsBusinessSite
        THEN [ session |-> recordInquiry(session, message),
               reply |-> "Perfect! Business websites help establish credibility and attract customers. What type of business is this for, and what key information do you want to showcase?" ]
        ELSE IF m.isSpammyWide \/ (~m.isBusinessInquiryWide /\ session.consecutiveNonBusiness >= 2)
        THEN [ session |-> [session EXCEPT !.consecutiveNonBusiness = @ + 1],
               reply |-> redirectReply(session.consecutiveNonBusiness + 1) ]
        ELSE IF needsLeadInfo(s1, message)
        THEN [ session |-> s1, reply |-> m.collectLeadReply ]
        ELSE [ session |-> s2, reply |-> m.inquiryReply ]

(***************************************************************************)
(* The handler, cut at its two suspension points (await logLeadToSheet,    *)
(* await model.generateContent).  Everything between two awaits runs       *)
(* without interleaving on the single JavaScript thread.                   *)
(***************************************************************************)

\* a JSON value for req.body.message that is truthy but not a string
NotAString == "<number>"
\* the text the language model returns
AiText == "<generated text>"

Response(status, error, message, agentType) ==
    [ status |-> status, error |-> error, message |-> message, agentType |-> agentType ]
Ok(message) == Response(200, Undefined, message, "receptionist")
BadRequest == Response(400, "Message is required", Undefined, Undefined)
InternalError == Response(500, "Failed to process message", Undefined, Undefined)
NoResponse == Response(0, Undefined, Undefined, Undefined)

\* const { message, sessionId = 'default' } = req.body
\* the number of responses a segment of the handler sends: res.json or
\* res.status(..).json on the path it took, none if it suspended
responsesSent(resp) == IF resp = NoResponse THEN 0 ELSE 1

sessionKey(sessionId) == IF sessionId = Undefined THEN "default" ELSE sessionId

\* (mutation: only a missing message is rejected, an empty one is let through)
FalsyOnlyIfMissing(message) == message = Undefined

\* if (!message)
Falsy(message) == message = Undefined \/ message = ""

businessInquiry(srv, message) ==
    IF srv = "minimal" THEN analysisOf[message].isBusinessInquiry
    ELSE analysisOf[message].isBusinessInquiryWide

\* (mutation: the guard forgets that a business inquiry must have been made)
leadBlockWithoutInquiry(session) == ~session.leadCollected

\* (mutation: the guard forgets that the lead may already be collected)
leadBlockEveryTime(session) == session.hasMadeBusinessInquiry

\* "Always try to extract lead information if we haven't collected a lead yet":
\* the block's guard
leadBlockApplies(session) == session.hasMadeBusinessInquiry /\ ~session.leadCollected

\* (mutation: the flag is assigned the test's result instead of being set once)
inquiryCheckAssigns(srv, session, message) ==
    [session EXCEPT !.hasMadeBusinessInquiry = session.hasGreeted /\ businessInquiry(srv, message)]

\* "Check for business inquiry after greeting"
inquiryCheck(srv, session, message) ==
    IF session.hasGreeted /\ ~session.hasMadeBusinessInquiry /\ businessInquiry(srv, message)
    THEN recordInquiry(session, message)
    ELSE session

\* (mutation: the inquiry check runs on the greeting turn as well)
greetingTurnRecordsInquiry(srv, session, message) ==
    inquiryCheck(srv, [session EXCEPT !.hasGreeted = TRUE], message)

\* "Check for greeting first": session.hasGreeted = true, and the handler returns
greetingTurn(srv, session, message) == [session EXCEPT !.hasGreeted = TRUE]

\* From the start of the handler to its first await or its response.
\* next: "respond" (response holds what was sent), "awaitLog" or "awaitLLM";
\* logged: the lead records logLeadToSheet wrote before suspending.
chatSync(srv, map, sessionId, message) ==
    LET sid == sessionKey(sessionId)
        map1 == getSession(map, sid)
        s1 == [map1[sid] EXCEPT !.messages = Append(@, [role |-> "user", content |-> message])]
        leadData == analysisOf[message].extractLeadInfo
        s2 == [s1 EXCEPT !.leadInfo = mergeLeadInfo(@, leadData)]
        s3 == [s2 EXCEPT !.leadCollected = TRUE]
        done(s, resp) == [ sessions |-> [map1 EXCEPT ![sid] = s], next |-> "respond",
                           response |-> resp, logged |-> << >> ]
    IN  IF Falsy(message)
        THEN [ sessions |-> map, next |-> "respond", response |-> BadRequest, logged |-> << >> ]
        ELSE IF message = NotAString
        THEN \* message.toLowerCase is not a function: the outer catch answers
             done(s1, InternalError)
        ELSE IF leadBlockApplies(s1) /\ leadData.hasContact
        THEN IF leadComplete(s2.leadInfo)
             THEN [ sessions |-> [map1 EXCEPT ![sid] = s3], next |-> "awaitLog",
                    response |-> NoResponse, logged |-> <<leadRecord(s3)>> ]
             ELSE done(s2, Ok(followUpReply(s2.leadInfo, leadData)))
        ELSE IF ~s1.hasGreeted /\ analysisOf[message].isGreeting
        THEN done(greetingTurn(srv, s1, message), Ok(GreetingReply))
        ELSE [ sessions |-> [map1 EXCEPT ![sid] = inquiryCheck(srv, s1, message)],
               next |-> "awaitLLM", response |-> NoResponse, logged |-> << >> ]

\* After await logLeadToSheet (which catches its own errors): the thank-you
afterLog(map, sessionId) ==
    [ sessions |-> map, response |-> Ok(thanksReply(map[sessionKey(sessionId)])) ]

\* (mutation: every server updates the session after the language model's reply)
postAiUpdateEveryServer(srv, session, message) ==
    IF analysisOf[message].isBusinessInquiryWide /\ ~session.hasMadeBusinessInquiry
    THEN recordInquiry(session, message)
    ELSE session

\* "Update session state based on AI conversation" (intelligent server only)
postAiUpdate(srv, session, message) ==
    IF srv = "intelligent" /\ analysisOf[message].isBusinessInquiryWide /\ ~session.hasMadeBusinessInquiry
    THEN recordInquiry(session, message)
    ELSE session

fallback(srv, message, session) ==
    IF srv = "minimal" THEN getStateAwareFallbackResponse(message, session)
    ELSE getIntelligentFallback(message, session)

\* (mutation: no catch at all around the call, so a failing call rejects the
\* handler's promise and nothing is sent)
afterLLMUnanswered(srv, map, sessionId, message, outcome) ==
    IF outcome = "ok"
    THEN [ sessions |-> [map EXCEPT ![sessionKey(sessionId)] = postAiUpdate(srv, @, message)],
           response |-> Ok(AiText) ]
    ELSE [ sessions |-> map, response |-> NoResponse ]

\* (mutation: no inner try/catch, so a failing call reaches the outer catch)
afterLLMUncaught(srv, map, sessionId, message, outcome) ==
    IF outcome = "ok"
    THEN [ sessions |-> [map EXCEPT ![sessionKey(sessionId)] = postAiUpdate(srv, @, message)],
           response |-> Ok(AiText) ]
    ELSE [ sessions |-> map, response |-> InternalError ]

\* After await model.generateContent: outcome "ok" (text returned) or "error"
\* (the call threw and the inner catch fell through to the fallback)
afterLLM(srv, map, sessionId, message, outcome) ==
    LET sid == sessionKey(sessionId)
        fb == fallback(srv, message, map[sid])
    IN  IF outcome = "ok"
        THEN [ sessions |-> [map EXCEPT ![sid] = postAiUpdate(srv, @, message)],
               response |-> Ok(AiText) ]
        ELSE [ sessions |-> [map EXCEPT ![sid] = fb.session],
               response |-> Ok(fb.reply) ]

(***************************************************************************)
(* State                                                                   *)
(***************************************************************************)

VARIABLES
    server,      \* which server file is deployed: "minimal" or "intelligent"
    sessions,    \* the sessions Map: session id -> session object
    leads,       \* what logLeadToSheet has logged, in order
    inflight,    \* the suspended requests: slot -> [sessionId, message, pc]
    response,    \* the response sent by the latest step that answered a request
    answered,    \* the message of the request that response answers
    llm,         \* what the language model call of that request did:
                 \* "none" (not reached), "ok" or "error"
    received,    \* number of requests received so far
    responded,   \* the number of HTTP responses the chat handler has sent
    history,     \* the turns the fallback answered last: [run, afterBusiness]
    dbConversation, \* the conversation row the agents work on
    outbox,      \* the send attempts the latest call into the agents made
    call,        \* the latest call into the agents and what it returned
    escalations, \* the rows of the escalations table
    tasks,       \* the rows of the tasks table
    configured,  \* the notification channels the environment configures
    turn         \* the orchestrated turn that awaits its notification sends

\* Concurrent calls of AgentOrchestrator.processMessage
VARIABLES
    conversations,  \* the conversations table: id -> row (id is its primary key)
    processing      \* the processMessage calls: caller -> where the call is

serverVars == <<server, sessions, leads, inflight, response, answered, llm, received, history,
                responded>>
agentVars == <<dbConversation, outbox, call, escalations, tasks, configured, turn>>
orchestratorVars == <<conversations, processing>>
vars == <<serverVars, agentVars, tables, orchestratorVars>>

\* bounds of the model: the number of requests a behaviour receives
MaxRequests == 4
MaxConcurrentRequests == 4
\* ... and the number of turns of a conversation with the agents
MaxTurns == 3

Servers == {"minimal", "intelligent"}
\* the notification channels the NotificationService constructor sets up when
\* the environment configures them (push is never set up)
ConfigurableChannels == {"sms", "slack", "email"}
MessageInputs == Corpus \cup {Undefined, "", NotAString}
\* the messages of the concurrent specification
ConcurrentInputs ==
    { "hi", "how much does a website cost", "my name is Dana, dana@example.com",
      "Dana", "dana@example.com", "salon" }
SessionIdInputs == {Undefined}
Outcomes == {"ok", "error"}
Slots == {"r1", "r2"}

\* a row of the conversations table (createConversation, or rows written earlier)
ConversationRow(stage, customer) ==
    [ messageCount |-> 0,
      contact_collection_stage |-> stage,
      customer_name |-> customer.name,
      customer_phone |-> customer.phone,
      customer_email |-> customer.email,
      hasContactInfo |-> Undefined,
      assigned_agent |-> "receptionist",
      status |-> "active",
      lead_quality |-> Undefined ]

NoCustomer == [name |-> Undefined, phone |-> Undefined, email |-> Undefined]
NoCall == [op |-> "none", message |-> Undefined, status |-> 0, result |-> << >>, trace |-> << >>]
NoTurn == [phase |-> "idle"]
NoHistory == [run |-> 0, afterBusiness |-> FALSE]

EmptyMap == [k \in {} |-> NewSession]

\* the callers of processMessage that may overlap, and a call not yet made
Callers == {"p1", "p2"}
NotCalled == [pc |-> "idle"]
\* the conversations table with no row
NoRows == [id \in {} |-> ConversationRow(Undefined, NoCustomer)]

Init ==
    /\ server \in Servers
    /\ sessions = EmptyMap
    /\ leads = << >>
    /\ inflight = [k \in {} |-> 0]
    /\ response = NoResponse
    /\ answered = Undefined
    /\ llm = "none"
    /\ received = 0
    /\ history = NoHistory
    /\ responded = 0
    /\ dbConversation = ConversationRow(Undefined, NoCustomer)
    /\ outbox = << >>
    /\ call = NoCall
    /\ escalations = << >>
    /\ tasks = << >>
    /\ configured = ConfigurableChannels
    /\ turn = NoTurn
    /\ analysisOf = AnalysisTable
    /\ agentAnalysisOf = << >>
    /\ conversations = NoRows
    /\ processing = [caller \in Callers |-> NotCalled]

(***************************************************************************)
(* Sequential turns: each request runs to its response before the next     *)
(* arrives.  outcome is what the language model call does if it is reached.*)
(***************************************************************************)

\* The record of the latest turns: run is the number of turns in a row, up to
\* the latest, that the fallback answered to a message matching no business
\* keyword; afterBusiness tells that the turn before that run was a turn the
\* fallback answered to a message matching one.  next is where the handler
\* went after its synchronous part, outcome what the language model call did.
historyAfter(srv, h, message, next, outcome) ==
    IF Falsy(message) THEN h
    ELSE IF next = "awaitLLM" /\ outcome = "error"
    THEN IF businessInquiry(srv, message)
         THEN [run |-> 0, afterBusiness |-> TRUE]
         ELSE [run |-> h.run + 1, afterBusiness |-> h.afterBusiness]
    ELSE NoHistory

Chat(sessionId, message, outcome) ==
    LET r == chatSync(server, sessions, sessionId, message)
        fin == IF r.next = "respond" THEN [sessions |-> r.sessions, response |-> r.response]
               ELSE IF r.next = "awaitLog" THEN afterLog(r.sessions, sessionId)
               ELSE afterLLM(server, r.sessions, sessionId, message, outcome)
    IN  /\ received < MaxRequests
        /\ received' = received + 1
        /\ sessions' = fin.sessions
        /\ response' = fin.response
        /\ responded' = responded + responsesSent(fin.response)
        /\ answered' = message
        /\ llm' = IF r.next = "awaitLLM" THEN outcome ELSE "none"
        /\ leads' = leads \o r.logged
        /\ history' = historyAfter(server, history, message, r.next, outcome)
        /\ UNCHANGED <<server, inflight, agentVars, tables, orchestratorVars>>

Next == \E sessionId \in SessionIdInputs, message \in MessageInputs, outcome \in Outcomes :
            Chat(sessionId, message, outcome)

Spec == Init /\ [][Next]_vars

\* the same turns while the language model is unavailable: every call of it throws
NextLlmDown == \E sessionId \in SessionIdInputs, message \in MessageInputs :
                   Chat(sessionId, message, "error")

SpecLlmDown == Init /\ [][NextLlmDown]_vars

(***************************************************************************)
(* Concurrent requests: a request suspended at an await leaves the thread  *)
(* to other requests; its continuation runs later, on the session as it    *)
(* then is.                                                                *)
(***************************************************************************)

Suspended(sessionId, message, pc) == [sessionId |-> sessionId, message |-> message, pc |-> pc]

Drop(f, k) == [j \in (DOMAIN f) \ {k} |-> f[j]]

\* a request arrives and runs to its first await, or to its response
Receive(slot, sessionId, message) ==
    LET r == chatSync(server, sessions, sessionId, message)
    IN  /\ slot \notin DOMAIN inflight
        /\ received < MaxConcurrentRequests
        /\ received' = received + 1
        /\ sessions' = r.sessions
        /\ leads' = leads \o r.logged
        /\ IF r.next = "respond"
           THEN /\ response' = r.response
                /\ responded' = responded + responsesSent(r.response)
                /\ answered' = message
                /\ llm' = "none"
                /\ history' = historyAfter(server, history, message, r.next, "none")
                /\ UNCHANGED inflight
           ELSE /\ inflight' = inflight @@ (slot :> Suspended(sessionId, message, r.next))
                /\ UNCHANGED <<response, responded, answered, llm, history>>
        /\ UNCHANGED <<server, agentVars, tables, orchestratorVars>>

\* logLeadToSheet has settled: the request sends the thank-you
ResumeLog(slot) ==
    /\ slot \in DOMAIN inflight
    /\ inflight[slot].pc = "awaitLog"
    /\ LET fin == afterLog(sessions, inflight[slot].sessionId)
       IN  /\ sessions' = fin.sessions
           /\ response' = fin.response
           /\ responded' = responded + responsesSent(fin.response)
    /\ answered' = inflight[slot].message
    /\ llm' = "none"
    /\ history' = historyAfter(server, history, inflight[slot].message, "awaitLog", "none")
    /\ inflight' = Drop(inflight, slot)
    /\ UNCHANGED <<server, leads, received, agentVars, tables, orchestratorVars>>

\* the language model call has settled: its text, or the fallback
ResumeLLM(slot, outcome) ==
    /\ slot \in DOMAIN inflight
    /\ inflight[slot].pc = "awaitLLM"
    /\ LET fin == afterLLM(server, sessions, inflight[slot].sessionId, inflight[slot].message, outcome)
       IN  /\ sessions' = fin.sessions
           /\ response' = fin.response
           /\ responded' = responded + responsesSent(fin.response)
    /\ answered' = inflight[slot].message
    /\ llm' = outcome
    /\ history' = historyAfter(server, history, inflight[slot].message, "awaitLLM", outcome)
    /\ inflight' = Drop(inflight, slot)
    /\ UNCHANGED <<server, leads, received, agentVars, tables, orchestratorVars>>

NextConc ==
    \/ \E slot \in Slots, sessionId \in SessionIdInputs, message \in ConcurrentInputs :
            Receive(slot, sessionId, message)
    \/ \E slot \in Slots : ResumeLog(slot)
    \/ \E slot \in Slots, outcome \in Outcomes : ResumeLLM(slot, outcome)

SpecConc == Init /\ [][NextConc]_vars

\* ... where every lead-logging call and every language model call settles:
\* the continuation of a suspended request is run once its await has settled
\* the messages that take the handler down each of its paths
EveryPathInputs ==
    { Undefined, NotAString, "hi", "how much does a website cost",
      "my name is Dana, dana@example.com", "Dana" }

NextEveryPath ==
    \/ \E slot \in Slots, sessionId \in SessionIdInputs, message \in EveryPathInputs :
            Receive(slot, sessionId, message)
    \/ \E slot \in Slots : ResumeLog(slot)
    \/ \E slot \in Slots, outcome \in Outcomes : ResumeLLM(slot, outcome)

SpecConcFair ==
    /\ Init /\ [][NextEveryPath]_vars
    /\ \A slot \in Slots :
          /\ WF_vars(ResumeLog(slot))
          /\ WF_vars(\E outcome \in Outcomes : ResumeLLM(slot, outcome))

(***************************************************************************)
(* The agents: ReceptionistAgent (keyword variant), CoordinatorAgent,      *)
(* SalesAgent and the AgentOrchestrator that the /chat route calls         *)
(***************************************************************************)

Null == "<null>"

\* `${v}` of a value that may be undefined
str(v) == IF v = Undefined THEN "undefined" ELSE v

\* Array.prototype.find over a list of keywords: the first one included
findIncluded(keywords, s) ==
    LET hits == {i \in DOMAIN keywords : includes(s, keywords[i])}
    IN  IF hits = {} THEN Undefined ELSE keywords[MinOf(hits)]

\* the first type, in the object's key order, one of whose keywords is included
firstType(patterns, s, none) ==
    LET hits == {i \in DOMAIN patterns : someIncluded(patterns[i].keywords, s)}
    IN  IF hits = {} THEN none ELSE patterns[MinOf(hits)].type

\* the types, in the object's key order, one of whose keywords is included
RECURSIVE allTypes(_, _, _)
allTypes(patterns, s, i) ==
    IF i > Len(patterns) THEN << >>
    ELSE (IF someIncluded(patterns[i].keywords, s) THEN <<patterns[i].type>> ELSE << >>)
            \o allTypes(patterns, s, i + 1)

\* ---- ReceptionistAgent ----

escalationTriggers ==
    << "changes to my existing site", "modify my current", "update my website",
       "add to my site", "crypto payment", "payment gateway", "specific functionality",
       "custom feature", "how would you implement", "what technology",
       "database structure", "API integration" >>

classifyInquiry(message) ==
    firstType(<< [type |-> "pricing", keywords |-> <<"cost", "price", "budget", "how much", "rate", "hourly">>],
                 [type |-> "services", keywords |-> <<"do you do", "can you", "services", "what do you offer">>],
                 [type |-> "timeline", keywords |-> <<"how long", "when", "timeline", "deadline">>],
                 [type |-> "contact_info", keywords |-> <<"my name is", "i'm", "call me", "email me">>],
                 [type |-> "urgency_assessment", keywords |-> <<"right now", "immediately", "later", "callback">>] >>,
              message, "general")

identifyProjectType(message) ==
    firstType(<< [type |-> "one_page", keywords |-> <<"one page", "single page", "landing page", "simple site">>],
                 [type |-> "ecommerce", keywords |-> <<"online store", "e-commerce", "sell products", "shopping cart">>],
                 [type |-> "redesign", keywords |-> <<"redesign", "rebuild", "complete overhaul", "start over">>],
                 [type |-> "new_website", keywords |-> <<"new website", "build a site", "create a website", "from scratch">>] >>,
              message, "unknown")

\* BaseAgent.assessUrgency
assessUrgency(message) ==
    IF someIncluded(<<"urgent", "asap", "emergency", "immediate", "now", "help">>, toLowerCase(message))
    THEN "high" ELSE "medium"

requiresContactInfo(inquiryType, conversation) ==
    inquiryType \in {"escalation", "pricing", "services"} /\ ~Truthy(conversation.customer_name)

classifyUrgency(message) ==
    LET lowerMessage == toLowerCase(message)
    IN  IF someIncluded(<<"now", "right now", "immediately", "urgent", "asap", "waiting">>, lowerMessage)
        THEN "immediate"
        ELSE IF someIncluded(<<"later", "callback", "call back", "tomorrow", "this week">>, lowerMessage)
        THEN "callback"
        ELSE "flexible"

\* input && input.trim().length > 1 && !/^\d+$/.test(input)
validateName(input) ==
    Truthy(input) /\ Len(trim(input)) > 1 /\ ~(Len(input) >= 1 /\ allIn(input, Digits))

\* ---- CoordinatorAgent ----

isPricingInquiry(message) ==
    someIncluded(<<"cost", "price", "budget", "how much", "rate", "hourly", "quote">>, message)

isServiceInquiry(message) ==
    someIncluded(<<"do you do", "can you", "services", "what do you offer", "capabilities">>, message)

isEscalationRequired(message) ==
    someIncluded(<<"existing site", "modify my current", "update my website", "add to my site",
                  "crypto payment", "specific functionality", "how would you implement",
                  "technical question">>, message)

isUrgencyAssessment(message) ==
    someIncluded(<<"right now", "immediately", "later", "callback", "schedule">>, message)

\* ---- SalesAgent ----

budgetSignals == <<"budget", "investment", "approved", "ready to spend">>
urgencySignals == <<"need soon", "launching", "deadline", "asap">>
authoritySignals == <<"business owner", "decision maker", "can decide", "my company">>
requirementSignals == <<"need features", "must have", "requirements", "specifications">>
scopeSignals == <<"ecommerce", "online store">>
lowValueSignals == <<"simple", "basic">>

\* calculateLeadScore before the clamp: let score = 50, then the adjustments
scoreBeforeClamp(lowerMessage) ==
    LET score0 == 50
        score1 == IF someIncluded(budgetSignals, lowerMessage) THEN score0 + 20 ELSE score0
        score2 == IF someIncluded(urgencySignals, lowerMessage) THEN score1 + 15 ELSE score1
        score3 == IF someIncluded(authoritySignals, lowerMessage) THEN score2 + 15 ELSE score2
        score4 == IF someIncluded(requirementSignals, lowerMessage) THEN score3 + 10 ELSE score3
        score5 == IF includes(lowerMessage, "ecommerce") \/ includes(lowerMessage, "online store")
                  THEN score4 + 10 ELSE score4
        score6 == IF includes(lowerMessage, "simple") \/ includes(lowerMessage, "basic")
                  THEN score5 - 5 ELSE score5
    IN  score6

\* (mutation: the score is returned without Math.min / Math.max)
calculateLeadScoreUnclamped(message, conversation) == scoreBeforeClamp(toLowerCase(message))

calculateLeadScore(message, conversation) ==
    MinOf({100, MaxOf({0, scoreBeforeClamp(toLowerCase(message))})})

detectBuyingSignals(message) ==
    allTypes(<< [type |-> "ready_to_start", keywords |-> <<"ready to start", "when can we begin", "next steps">>],
                [type |-> "budget_approved", keywords |-> <<"budget approved", "have funding", "ready to invest">>],
                [type |-> "timeline_urgency", keywords |-> <<"need asap", "launching soon", "deadline">>],
                [type |-> "comparing_options", keywords |-> <<"comparing", "other quotes", "deciding between">>],
                [type |-> "decision_authority", keywords |-> <<"can decide", "business owner", "final decision">>] >>,
             message, 1)

identifyUpsellOpportunities(message) ==
    allTypes(<< [type |-> [projectType |-> "basic_website",
                           suggestedUpsells |-> <<"seo_optimization", "maintenance_plan", "analytics_setup">>],
                 keywords |-> <<"simple site", "basic website", "one page">>],
                [type |-> [projectType |-> "ecommerce",
                           suggestedUpsells |-> <<"payment_gateways", "inventory_management", "marketing_automation">>],
                 keywords |-> <<"online store", "sell products", "ecommerce">>],
                [type |-> [projectType |-> "existing_site",
                           suggestedUpsells |-> <<"redesign", "performance_optimization", "mobile_optimization">>],
                 keywords |-> <<"current site", "existing website", "my site">>] >>,
             message, 1)

detectCompetitorMentions(message) ==
    allTypes(<< [type |-> "wix", keywords |-> <<"wix", "wix.com">>],
                [type |-> "squarespace", keywords |-> <<"squarespace", "square space">>],
                [type |-> "wordpress", keywords |-> <<"wordpress", "wp">>],
                [type |-> "shopify", keywords |-> <<"shopify">>],
                [type |-> "webflow", keywords |-> <<"webflow">>],
                [type |-> "local_agency", keywords |-> <<"other developer", "another company", "local agency">>] >>,
             message, 1)

\* Array.prototype.includes
has(list, x) == \E i \in DOMAIN list : list[i] = x

generateRecommendations(score, buyingSignals) ==
    (IF score > 80
     THEN << [action |-> "priority_follow_up", timing |-> "within_2_hours"] >>
     ELSE IF score > 60
     THEN << [action |-> "warm_follow_up", timing |-> "within_24_hours"] >>
     ELSE IF score > 40
     THEN << [action |-> "nurture_sequence", timing |-> "weekly_follow_up"] >>
     ELSE << >>)
    \o (IF has(buyingSignals, "ready_to_start")
        THEN << [action |-> "send_contract", timing |-> "immediate"] >> ELSE << >>)
    \o (IF has(buyingSignals, "comparing_options")
        THEN << [action |-> "competitive_differentiation", timing |-> "within_4_hours"] >> ELSE << >>)

analyzeOpportunity(message, conversation) ==
    LET lowerMessage == toLowerCase(message)
        qualificationScore == calculateLeadScore(message, conversation)
        buyingSignals == detectBuyingSignals(lowerMessage)
    IN  [ qualificationScore |-> qualificationScore,
          buyingSignals |-> buyingSignals,
          upsellOpportunities |-> identifyUpsellOpportunities(lowerMessage),
          competitorMentions |-> detectCompetitorMentions(lowerMessage),
          shouldEngage |-> qualificationScore > 70,
          recommendations |-> generateRecommendations(qualificationScore, buyingSignals) ]

\* ---- what the agents compute from the message text alone ----

AgentCorpus ==
    { "hello",
      "Modify My Current site please",
      "I need API integration",
      "can you add a payment gateway",
      "I want to make some changes to my existing site, how much would that cost?",
      "how much for a simple site",
      "call me right now",
      "call me later",
      "budget approved, deadline asap, business owner, must have ecommerce",
      "budget approved and a deadline",
      "launching an online store for my company",
      "comparing quotes, ready to start",
      "we have a budget",
      "I need to speak with someone right now",
      "please get back to me later",
      "this is urgent",
      "Dana" }

agentAnalyse(message) ==
    LET lowerMessage == toLowerCase(message)
    IN  [ escalationMatch |-> findIncluded(escalationTriggers, lowerMessage),
          classifyInquiry |-> classifyInquiry(lowerMessage),
          identifyProjectType |-> identifyProjectType(lowerMessage),
          assessUrgency |-> assessUrgency(lowerMessage),
          classifyUrgency |-> classifyUrgency(message),
          isPricingInquiry |-> isPricingInquiry(lowerMessage),
          isServiceInquiry |-> isServiceInquiry(lowerMessage),
          isEscalationRequired |-> isEscalationRequired(lowerMessage),
          isUrgencyAssessment |-> isUrgencyAssessment(lowerMessage),
          \* analyzeOpportunity never reads its conversation argument
          analyzeOpportunity |-> analyzeOpportunity(message, Undefined),
          validateName |-> validateName(message),
          trim |-> trim(message) ]

AgentAnalysisTable == [message \in AgentCorpus |-> agentAnalyse(message)]

\* ---- ReceptionistAgent, on a conversation ----

AgentResponse(agentType, message, action, leadQuality, priority, details) ==
    [ agentType |-> agentType, message |-> message, action |-> action,
      leadQuality |-> leadQuality, priority |-> priority, details |-> details ]

Receptionist_analyzeMessage(message, conversation) ==
    LET m == agentAnalysisOf[message]
    IN  IF Truthy(m.escalationMatch)
        THEN [ requiresEscalation |-> TRUE,
               escalationReason |-> "specific_modification_request",
               needsContactInfo |-> TRUE,
               inquiryType |-> "escalation",
               projectType |-> Undefined,
               urgencyLevel |-> Undefined ]
        ELSE [ requiresEscalation |-> FALSE,
               escalationReason |-> Undefined,
               needsContactInfo |-> requiresContactInfo(m.classifyInquiry, conversation),
               inquiryType |-> m.classifyInquiry,
               projectType |-> m.identifyProjectType,
               urgencyLevel |-> m.assessUrgency ]

handleEscalation(message, analysis, conversation) ==
    IF ~Truthy(conversation.customer_name)
    THEN AgentResponse("receptionist",
            "That's a great question about specific modifications! Since every existing site is different, I'd like to have our developer take a look at your current setup to give you an accurate quote. Could I get your name and best contact number so they can reach you?",
            "collect_contact_info", "hot", Undefined,
            [nextStep |-> "collect_name", escalationPending |-> TRUE])
    ELSE AgentResponse("receptionist",
            "Perfect! I can try to find someone who can better answer that question for you. Are you looking to speak with someone right now, or would you prefer to have someone get back to you later today?",
            "assess_urgency", "hot", Undefined,
            [escalationReason |-> analysis.escalationReason, originalInquiry |-> message])

projectResponse(projectType) ==
    IF projectType = "one_page"
    THEN [ question |-> "Are you looking for a simple one-page site or something more comprehensive?",
           priceRange |-> "Simple one-page sites typically range from $1,500-$3,500" ]
    ELSE IF projectType = "ecommerce"
    THEN [ question |-> "What type of e-commerce site are you considering?",
           priceRange |-> "E-commerce sites typically range from $5,000-$15,000 depending on features" ]
    ELSE IF projectType = "new_website"
    THEN [ question |-> "What type of website are you looking for? A simple business site or something more complex?",
           priceRange |-> "Business websites typically range from $3,000-$10,000" ]
    ELSE IF projectType = "redesign"
    THEN [ question |-> "What type of redesign are you considering - complete rebuild or working with your existing content?",
           priceRange |-> "Complete redesigns typically range from $4,000-$12,000" ]
    ELSE [ question |-> "What type of website are you looking for - a simple one-page site, business website, or e-commerce store?",
           priceRange |-> "Projects typically range from $1,500 for simple sites to $15,000+ for complex e-commerce" ]

handlePricingInquiry(message, analysis, conversation) ==
    LET r == projectResponse(analysis.projectType)
    IN  AgentResponse("receptionist",
            "I'd rather give you a total project cost upfront so there's no confusion or hassle calculating hours. "
                \o r.question \o "\n\n" \o r.priceRange
                \o " to give you a ballpark, but I can provide a more accurate estimate once I understand your specific needs.",
            "await_project_details",
            IF analysis.projectType = "unknown" THEN "cold" ELSE "warm",
            Undefined, << >>)

\* now.setHours(now.getHours() + 4); now.toISOString(): the timestamp, four
\* hours after the turn, as a symbol
calculateCallbackTime == "<now + 4 hours>"

handleUrgencyAssessment(message, conversation) ==
    LET urgencyLevel == agentAnalysisOf[message].classifyUrgency
    IN  IF urgencyLevel = "immediate"
        THEN AgentResponse("receptionist",
                "I'm checking to see who's available right now. I'll have someone reach out to you at "
                    \o str(conversation.customer_phone)
                    \o " within the next few minutes. If no one is immediately available, we'll definitely get back to you within a couple hours.",
                "immediate_escalation", "hot", "high",
                [ urgency |-> "immediate",
                  customerInfo |-> [ name |-> conversation.customer_name,
                                     phone |-> conversation.customer_phone,
                                     email |-> conversation.customer_email ] ])
        ELSE IF urgencyLevel = "callback"
        THEN AgentResponse("receptionist",
                "Perfect! I'll have someone get back to you later today or tomorrow morning at "
                    \o str(conversation.customer_phone)
                    \o ". You'll also receive a follow-up email at "
                    \o str(conversation.customer_email) \o " with some initial information.",
                "schedule_callback", "warm", "medium",
                [callbackTime |-> calculateCallbackTime])
        ELSE AgentResponse("receptionist",
                "Thanks for the information! Someone will be in touch with you soon to discuss your project in detail.",
                "standard_follow_up", "warm", "medium", << >>)

\* conversation.contactCollectionStage is a key no conversation row has, so the
\* stage is always 'collect_name'
handleContactCollection(message, conversation) ==
    IF agentAnalysisOf[message].validateName
    THEN AgentResponse("receptionist",
            "Thank you, " \o agentAnalysisOf[message].trim \o "! And what's the best phone number to reach you at?",
            "collect_contact_info", Undefined, Undefined,
            [nextStep |-> "collect_phone", contactData |-> [name |-> agentAnalysisOf[message].trim]])
    ELSE AgentResponse("receptionist", "I didn't catch that. Could you tell me your name?",
            "collect_contact_info", Undefined, Undefined,
            [nextStep |-> "collect_name", retry |-> TRUE])

handleGeneralResponse(message, conversation) ==
    AgentResponse("receptionist",
        "Thanks for reaching out! I'd be happy to help you with your project. Could you tell me a bit more about what you're looking for?",
        "await_clarification", "warm", Undefined, << >>)

getErrorResponse ==
    AgentResponse("receptionist",
        "I apologize, I'm having a technical issue right now. Could you please try your message again, or would you prefer to speak with someone directly?",
        "error_recovery", Undefined, "medium", << >>)

\* ReceptionistAgent.processMessage.  handleServicesInquiry, handleTimelineInquiry
\* and processContactInfo are not defined in the class: calling them throws a
\* TypeError, as message.toLowerCase() does on a message that is no string, and
\* the catch answers with getErrorResponse.
Receptionist_processMessage(message, conversation) ==
    IF message = NotAString THEN getErrorResponse
    ELSE LET analysis == Receptionist_analyzeMessage(message, conversation)
         IN  IF analysis.requiresEscalation
             THEN handleEscalation(message, analysis, conversation)
             ELSE IF analysis.inquiryType = "pricing"
             THEN handlePricingInquiry(message, analysis, conversation)
             ELSE IF analysis.inquiryType \in {"services", "timeline", "contact_info"}
             THEN getErrorResponse
             ELSE IF analysis.inquiryType = "urgency_assessment"
             THEN handleUrgencyAssessment(message, conversation)
             ELSE IF analysis.needsContactInfo /\ ~Truthy(conversation.hasContactInfo)
             THEN handleContactCollection(message, conversation)
             ELSE handleGeneralResponse(message, conversation)

\* the customer_name the conversation row holds after processMessage
\* (handleContactCollection's updateConversationData)
Receptionist_customerName(message, conversation) ==
    IF /\ message # NotAString
       /\ Receptionist_processMessage(message, conversation).action = "collect_contact_info"
       /\ ~Receptionist_analyzeMessage(message, conversation).requiresEscalation
       /\ agentAnalysisOf[message].validateName
    THEN agentAnalysisOf[message].trim
    ELSE conversation.customer_name

\* ---- CoordinatorAgent, on a conversation ----

classifyMessage(message, conversation) ==
    LET m == agentAnalysisOf[message]
        messageCount == conversation.messageCount
        currentStage == conversation.contact_collection_stage
    IN  IF Truthy(currentStage) /\ currentStage # "complete" THEN "contact_collection_flow"
        ELSE IF m.isPricingInquiry THEN "pricing_inquiry"
        ELSE IF m.isServiceInquiry THEN "service_inquiry"
        ELSE IF m.isEscalationRequired THEN "escalation_required"
        ELSE IF m.isUrgencyAssessment THEN "urgency_assessment"
        ELSE IF messageCount = 0 THEN "initial_inquiry"
        ELSE "general_inquiry"

RoutingDecision(assignedAgent, reasoning, flags) ==
    [assignedAgent |-> assignedAgent, reasoning |-> reasoning, flags |-> flags]

\* (mutation: pricing inquiries are handed to the sales agent)
Coordinator_routeMessageToSales(messageType, conversation) ==
    IF messageType = "escalation_required"
    THEN RoutingDecision("receptionist", "escalation_needs_human_handoff", {"requiresEscalation"})
    ELSE IF messageType = "pricing_inquiry"
    THEN RoutingDecision("sales", "pricing_requires_qualification", {"requiresContactInfo"})
    ELSE IF messageType = "sales_opportunity"
    THEN RoutingDecision("receptionist", "sales_opportunity_identified", {"flagForSales"})
    ELSE RoutingDecision("receptionist", "default_routing_to_receptionist", {})

Coordinator_routeMessage(messageType, conversation) ==
    IF messageType = "escalation_required"
    THEN RoutingDecision("receptionist", "escalation_needs_human_handoff", {"requiresEscalation"})
    ELSE IF messageType = "pricing_inquiry"
    THEN RoutingDecision("receptionist", "pricing_requires_qualification", {"requiresContactInfo"})
    ELSE IF messageType = "sales_opportunity"
    THEN RoutingDecision("receptionist", "sales_opportunity_identified", {"flagForSales"})
    ELSE RoutingDecision("receptionist", "default_routing_to_receptionist", {})

\* the messageType local of analyzeMessage; none when classifyMessage threw
Coordinator_messageType(message, conversation) ==
    IF message = NotAString THEN Undefined ELSE classifyMessage(message, conversation)

\* CoordinatorAgent.analyzeMessage: message.toLowerCase() throws on a message that
\* is no string, and the catch falls back to the receptionist
Coordinator_analyzeMessage(message, conversation) ==
    IF message = NotAString
    THEN RoutingDecision("receptionist", "fallback_to_receptionist_on_error", {})
    ELSE Coordinator_routeMessage(classifyMessage(message, conversation), conversation)

Coordinator_processMessage(message, conversation) ==
    AgentResponse("coordinator", Null, "routing_analysis_complete", Undefined, Undefined,
                  [routing |-> Coordinator_analyzeMessage(message, conversation)])

\* ---- SalesAgent, on a conversation ----

\* (mutation: the high-value path writes to the customer)
generateSalesResponseWithPitch(opportunity, conversation) ==
    IF opportunity.qualificationScore > 80 /\ Len(opportunity.buyingSignals) > 0
    THEN AgentResponse("sales", "Schedule immediate consultation", "high_value_opportunity",
                       Undefined, "high", [recommendations |-> opportunity.recommendations])
    ELSE AgentResponse("sales", Null, "opportunity_monitoring", Undefined, Undefined,
                       [recommendations |-> opportunity.recommendations])

generateSalesResponse(opportunity, conversation) ==
    IF opportunity.qualificationScore > 80 /\ Len(opportunity.buyingSignals) > 0
    THEN AgentResponse("sales", Null, "high_value_opportunity", Undefined, "high",
                       [ recommendations |-> opportunity.recommendations,
                         suggestedActions |-> << "Schedule immediate consultation",
                                                 "Prepare custom proposal",
                                                 "Send portfolio of similar projects" >> ])
    ELSE AgentResponse("sales", Null, "opportunity_monitoring", Undefined, Undefined,
                       [recommendations |-> opportunity.recommendations])

Sales_processMessage(message, conversation) ==
    IF message = NotAString
    THEN AgentResponse("sales", Null, "analysis_error", Undefined, Undefined,
                       [error |-> "message.toLowerCase is not a function"])
    ELSE LET opportunity == agentAnalysisOf[message].analyzeOpportunity
         IN  IF opportunity.shouldEngage
             THEN generateSalesResponse(opportunity, conversation)
             ELSE AgentResponse("sales", Null, "opportunity_analyzed", Undefined, Undefined,
                                [ opportunity |-> opportunity,
                                  recommendations |-> opportunity.recommendations ])

\* ---- AgentOrchestrator ----

\* routing.assignedAgent || 'receptionist': the key of the agent that handles
Orchestrator_routeMessage(conversation, message) ==
    LET routing == Coordinator_analyzeMessage(message, conversation)
    IN  IF Truthy(routing.assignedAgent) THEN routing.assignedAgent ELSE "receptionist"

\* assignedAgent.processMessage(message, conversation)
Agent_processMessage(agentType, message, conversation) ==
    IF agentType = "receptionist" THEN Receptionist_processMessage(message, conversation)
    ELSE IF agentType = "sales" THEN Sales_processMessage(message, conversation)
    ELSE Coordinator_processMessage(message, conversation)

\* the row after the two saveMessage calls, the agent's own update,
\* updateConversationState and handleContactCollection
updateConversationState(conversation, message, agentResponse) ==
    LET named == [conversation EXCEPT
                    !.customer_name = IF agentResponse.agentType = "receptionist"
                                      THEN Receptionist_customerName(message, conversation) ELSE @]
        stated == [named EXCEPT
                    !.messageCount = @ + 2,
                    !.assigned_agent = agentResponse.agentType,
                    !.status = IF agentResponse.action = "escalate_to_human" THEN "escalated" ELSE @,
                    !.lead_quality = IF Truthy(agentResponse.leadQuality)
                                     THEN agentResponse.leadQuality ELSE @]
    IN  IF agentResponse.action = "collect_contact_info" /\ "contactData" \in DOMAIN agentResponse.details
        THEN [stated EXCEPT !.customer_name = agentResponse.details.contactData.name,
                            !.customer_phone = Undefined,
                            !.customer_email = Undefined]
        ELSE stated

\* ---- NotificationService ----

\* the channel a send method uses
channelOf(method) ==
    IF method = "sendSMSAlert" THEN "sms"
    ELSE IF method \in {"sendSlackUrgent", "sendSlackNotification"} THEN "slack"
    ELSE IF method = "sendEmailAlert" THEN "email"
    ELSE "push"

\* what one send method does: sendPushNotification only logs; the others
\* return false when their channel is not configured, and catch what the
\* provider's call throws
sendOutcome(method, configuredChannels, thrown) ==
    IF channelOf(method) = "push" THEN "sent"
    ELSE IF channelOf(method) \notin configuredChannels THEN "not_configured"
    ELSE IF channelOf(method) \in thrown THEN "threw"
    ELSE "sent"

sendAttempt(method, configuredChannels, thrown) ==
    [ method |-> method,
      channel |-> channelOf(method),
      outcome |-> sendOutcome(method, configuredChannels, thrown),
      result |-> sendOutcome(method, configuredChannels, thrown) = "sent" ]

\* Promise.all over sends that never reject: every one of them is started
\* and settles with its own result.  The mutant's fan-out stops at the first
\* send that fails.
RECURSIVE promiseAllUntilFailure(_, _, _)
promiseAllUntilFailure(methods, configuredChannels, thrown) ==
    IF methods = << >> THEN << >>
    ELSE LET first == sendAttempt(Head(methods), configuredChannels, thrown)
         IN  IF first.result
             THEN <<first>> \o promiseAllUntilFailure(Tail(methods), configuredChannels, thrown)
             ELSE <<first>>

promiseAll(methods, configuredChannels, thrown) ==
    [i \in DOMAIN methods |-> sendAttempt(methods[i], configuredChannels, thrown)]

\* the sends of sendEscalationNotification, by the escalation's priority
escalationNotificationSends(priority) ==
    IF priority = "high"
    THEN <<"sendSMSAlert", "sendSlackUrgent", "sendEmailAlert">>
    ELSE <<"sendSlackNotification", "sendEmailAlert">>

\* the sends of sendImmediateEscalation
immediateEscalationSends ==
    <<"sendSMSAlert", "sendSlackUrgent", "sendEmailAlert", "sendPushNotification">>

\* ---- AgentOrchestrator: handleAgentActions ----

\* the sends of AgentOrchestrator.handleImmediateEscalation
handleImmediateEscalation(agentResponse) ==
    <<"sendSMSAlert", "sendSlackUrgent", "sendPushNotification">>

\* the row AgentOrchestrator.handleEscalation inserts; status is the column's default
escalationRow(agentResponse) ==
    [ escalation_reason |-> IF "escalationReason" \in DOMAIN agentResponse.details
                            THEN agentResponse.details.escalationReason ELSE Undefined,
      priority |-> IF Truthy(agentResponse.priority) THEN agentResponse.priority ELSE "medium",
      status |-> "pending" ]

\* the row handleCallbackScheduling hands to dbService.createTask.  Whether the
\* tasks table takes it is the database's answer, an input of the turn
\* (DbFailureInputs).  The mutant schedules it without the agent's callbackTime.
callbackTaskUnscheduled(agentResponse) ==
    [ scheduled_time |-> Undefined,
      type |-> "callback",
      priority |-> IF Truthy(agentResponse.priority) THEN agentResponse.priority ELSE "medium" ]

callbackTask(agentResponse) ==
    [ scheduled_time |-> IF "callbackTime" \in DOMAIN agentResponse.details
                         THEN agentResponse.details.callbackTime ELSE Undefined,
      type |-> "callback",
      priority |-> IF Truthy(agentResponse.priority) THEN agentResponse.priority ELSE "medium" ]

\* what handleAgentActions asks of the database and of the notification
\* service: the escalation rows and task rows it inserts and the sends it awaits
handleAgentActions(agentResponse) ==
    IF agentResponse.action = "escalate_to_human"
    THEN [ escalations |-> <<escalationRow(agentResponse)>>, tasks |-> << >>,
           sends |-> escalationNotificationSends(escalationRow(agentResponse).priority) ]
    ELSE IF agentResponse.action = "schedule_callback"
    THEN [ escalations |-> << >>, tasks |-> <<callbackTask(agentResponse)>>, sends |-> << >> ]
    ELSE IF agentResponse.action = "immediate_escalation"
    THEN [ escalations |-> << >>, tasks |-> << >>,
           sends |-> handleImmediateEscalation(agentResponse) ]
    ELSE [ escalations |-> << >>, tasks |-> << >>, sends |-> << >> ]

\* processMessage up to the return of handleAgentActions' database calls
Orchestrator_processMessage(conversation, message) ==
    LET agentType == Orchestrator_routeMessage(conversation, message)
        agentResponse == Agent_processMessage(agentType, message, conversation)
    IN  [ conversation |-> updateConversationState(conversation, message, agentResponse),
          actions |-> handleAgentActions(agentResponse),
          agentType |-> agentType,
          response |-> agentResponse ]

\* the database calls of a turn, in the order processMessage makes them; only
\* a schedule_callback turn reaches createTask and only an escalate_to_human
\* turn createEscalation
dbCalls(actions) ==
    <<"getConversation", "saveMessage", "updateConversation">>
        \o (IF actions.escalations # << >> THEN <<"createEscalation">> ELSE << >>)
        \o (IF actions.tasks # << >> THEN <<"createTask">> ELSE << >>)

\* is the failing database call one this turn makes
dbThrows(dbFailure, actions) ==
    \E i \in DOMAIN dbCalls(actions) : dbCalls(actions)[i] = dbFailure

\* ... and has the turn made the call named before it fails
dbReached(dbFailure, actions, dbCall) ==
    \E i, j \in DOMAIN dbCalls(actions) :
        /\ dbCalls(actions)[i] = dbCall
        /\ dbCalls(actions)[j] = dbFailure
        /\ i < j

(***************************************************************************)
(* The agents as a state machine: the /chat route of routes/agents.js, the *)
(* fan-outs of the notification service and direct calls of the agents'    *)
(* public methods                                                          *)
(***************************************************************************)

AgentMessageInputs == AgentCorpus \cup {Undefined, "", NotAString}
BusinessIdInputs == {Undefined, "business-1"}
StageInputs == {Undefined, "collect_phone", "complete"}
CustomerInputs ==
    { NoCustomer, [name |-> "Dana", phone |-> "555-123-4567", email |-> "dana@example.com"] }
\* the database call that fails during a turn, if one does
DbFailureInputs == {"getConversation", "saveMessage", "updateConversation", "createTask"}
\* the messages of the turns during which it fails
FailingTurnInputs ==
    {"hello", "please get back to me later", "I need to speak with someone right now"}
\* the notification channels the environment configures
ChannelConfigInputs == { ConfigurableChannels, {"slack"} }
\* the channels whose provider call throws during a fan-out
ThrownInputs == SUBSET ConfigurableChannels
PriorityInputs == {"high", "medium"}

InitAgents ==
    /\ server = "minimal"
    /\ sessions = EmptyMap
    /\ leads = << >>
    /\ inflight = << >>
    /\ response = NoResponse
    /\ answered = Undefined
    /\ llm = "none"
    /\ received = 0
    /\ history = NoHistory
    /\ responded = 0
    /\ dbConversation \in {ConversationRow(stage, customer) : stage \in StageInputs, customer \in CustomerInputs}
    /\ outbox = << >>
    /\ call = NoCall
    /\ escalations = << >>
    /\ tasks = << >>
    /\ configured \in ChannelConfigInputs
    /\ turn = NoTurn
    /\ analysisOf = << >>
    /\ agentAnalysisOf = AgentAnalysisTable
    /\ conversations = NoRows
    /\ processing = [caller \in Callers |-> NotCalled]

\* the locals of the coordinator's and the receptionist's analysis of a turn
Trace(agentType, message, conversation) ==
    [ assignedAgent |-> agentType,
      messageType |-> Coordinator_messageType(message, conversation),
      analysis |-> IF message = NotAString THEN Undefined
                   ELSE Receptionist_analyzeMessage(message, conversation) ]

\* router.post('/chat'), up to the response or, when handleAgentActions
\* awaits notification sends, up to that await.  A database call that fails
\* throws through processMessage into the route's catch.
AgentsChat(message, businessId, dbFailure) ==
    /\ turn.phase = "idle"
    /\ dbConversation.messageCount < 2 * MaxTurns
    /\ outbox' = << >>
    /\ IF Falsy(message) \/ Falsy(businessId)
       THEN /\ call' = [op |-> "chat", message |-> message, status |-> 400,
                        result |-> << >>, trace |-> << >>]
            /\ UNCHANGED <<dbConversation, escalations, tasks, turn>>
       ELSE LET r == Orchestrator_processMessage(dbConversation, message)
                t == Trace(r.agentType, message, dbConversation)
            IN  IF dbThrows(dbFailure, r.actions)
                THEN /\ dbConversation' =
                            IF dbReached(dbFailure, r.actions, "updateConversation")
                            THEN r.conversation
                            ELSE IF dbReached(dbFailure, r.actions, "saveMessage")
                            THEN [dbConversation EXCEPT !.messageCount = @ + 2]
                            ELSE dbConversation
                     /\ call' = [op |-> "chat", message |-> message, status |-> 500,
                                 result |-> << >>, trace |-> t]
                     /\ UNCHANGED <<escalations, tasks, turn>>
                ELSE /\ dbConversation' = r.conversation
                     /\ escalations' = escalations \o r.actions.escalations
                     /\ tasks' = tasks \o r.actions.tasks
                     /\ IF r.actions.sends = << >>
                        THEN /\ call' = [op |-> "chat", message |-> message, status |-> 200,
                                         result |-> r.response, trace |-> t]
                             /\ turn' = NoTurn
                        ELSE /\ turn' = [ phase |-> "awaitSends", message |-> message,
                                          response |-> r.response, trace |-> t,
                                          sends |-> r.actions.sends, replied |-> FALSE ]
                             /\ UNCHANGED call
    /\ UNCHANGED <<serverVars, tables, orchestratorVars, configured>>

\* the sends handleAgentActions awaits settle, and processMessage returns
\* the reply the route answers with
SendsSettle(thrown) ==
    /\ turn.phase = "awaitSends"
    /\ outbox' = promiseAll(turn.sends, configured, thrown)
    /\ call' = [op |-> "chat", message |-> turn.message, status |-> 200,
                result |-> turn.response, trace |-> turn.trace]
    /\ turn' = NoTurn
    /\ UNCHANGED <<serverVars, tables, orchestratorVars, dbConversation, escalations, tasks, configured>>

\* The direct calls below are made while no turn is in progress, on a
\* conversation row that no turn has written to yet.

\* NotificationService.sendImmediateEscalation, called on its own
SendImmediateEscalation(thrown) ==
    /\ turn.phase = "idle"
    /\ dbConversation.messageCount = 0
    /\ outbox' = promiseAll(immediateEscalationSends, configured, thrown)
    /\ call' = [op |-> "sendImmediateEscalation", message |-> Undefined, status |-> 0,
                result |-> << >>, trace |-> << >>]
    /\ UNCHANGED <<serverVars, tables, orchestratorVars, dbConversation, escalations, tasks, configured, turn>>

\* NotificationService.sendEscalationNotification, called on its own
SendEscalationNotification(priority, thrown) ==
    /\ turn.phase = "idle"
    /\ dbConversation.messageCount = 0
    /\ outbox' = promiseAll(escalationNotificationSends(priority), configured, thrown)
    /\ call' = [op |-> "sendEscalationNotification", message |-> priority, status |-> 0,
                result |-> << >>, trace |-> << >>]
    /\ UNCHANGED <<serverVars, tables, orchestratorVars, dbConversation, escalations, tasks, configured, turn>>

\* SalesAgent.processMessage, called on its own
SalesProcess(message) ==
    /\ turn.phase = "idle"
    /\ dbConversation.messageCount = 0
    /\ call' = [op |-> "sales", message |-> message, status |-> 0,
                result |-> Sales_processMessage(message, dbConversation), trace |-> << >>]
    /\ outbox' = << >>
    /\ UNCHANGED <<serverVars, tables, orchestratorVars, dbConversation, escalations, tasks, configured, turn>>

\* SalesAgent.analyzeOpportunity, called on its own
AnalyzeOpportunity(message) ==
    /\ turn.phase = "idle"
    /\ dbConversation.messageCount = 0
    /\ call' = [op |-> "analyzeOpportunity", message |-> message, status |-> 0,
                result |-> agentAnalysisOf[message].analyzeOpportunity, trace |-> << >>]
    /\ outbox' = << >>
    /\ UNCHANGED <<serverVars, tables, orchestratorVars, dbConversation, escalations, tasks, configured, turn>>

\* CoordinatorAgent.processMessage, called on its own
CoordinatorProcess(message) ==
    /\ turn.phase = "idle"
    /\ dbConversation.messageCount = 0
    /\ call' = [op |-> "coordinator", message |-> message, status |-> 0,
                result |-> Coordinator_processMessage(message, dbConversation), trace |-> << >>]
    /\ outbox' = << >>
    /\ UNCHANGED <<serverVars, tables, orchestratorVars, dbConversation, escalations, tasks, configured, turn>>

NextAgents ==
    \/ \E message \in AgentMessageInputs, businessId \in BusinessIdInputs :
            AgentsChat(message, businessId, "none")
    \/ \E message \in FailingTurnInputs, dbFailure \in DbFailureInputs :
            AgentsChat(message, "business-1", dbFailure)
    \/ \E thrown \in ThrownInputs : SendsSettle(thrown)
    \/ \E thrown \in ThrownInputs : SendImmediateEscalation(thrown)
    \/ \E priority \in PriorityInputs, thrown \in ThrownInputs : SendEscalationNotification(priority, thrown)
    \/ \E message \in AgentCorpus \cup {NotAString} : SalesProcess(message)
    \/ \E message \in AgentCorpus : AnalyzeOpportunity(message)
    \/ \E message \in AgentCorpus \cup {NotAString} : CoordinatorProcess(message)

SpecAgents == InitAgents /\ [][NextAgents]_vars

(***************************************************************************)
(* Properties of the chat handler                                          *)
(***************************************************************************)

\* the last user message a session holds
lastMessage(session) == session.messages[Len(session.messages)].content

\* C1: in every reachable session state, fallback turns included,
\* leadCollected is true if and only if leadInfo holds a non-empty name and a
\* non-empty email or phone.
LeadCollectedIffComplete ==
    \A sid \in DOMAIN sessions :
        sessions[sid].leadCollected <=> leadComplete(sessions[sid].leadInfo)

\* C2: a turn that takes leadCollected from false to true starts in a state
\* where hasMadeBusinessInquiry is already true: the lead is collected strictly
\* later than the turn that recorded the business inquiry.
LeadOnlyAfterInquiry ==
    [][ \A sid \in DOMAIN sessions' :
            (sessions'[sid].leadCollected /\ ~(sid \in DOMAIN sessions /\ sessions[sid].leadCollected))
                => (sid \in DOMAIN sessions /\ sessions[sid].hasMadeBusinessInquiry) ]_vars

\* a lead has been collected in a session that had made its inquiry earlier
LeadCollectedAfterInquiry ==
    \E sid \in DOMAIN sessions :
        /\ sessions[sid].leadCollected
        /\ sessions[sid].hasMadeBusinessInquiry
        /\ Len(leads) = 1

\* C3: no chat turn, whether the language model answers or fails, takes
\* hasMadeBusinessInquiry from true back to false.
InquiryFlagNeverReverts ==
    [][ \A sid \in DOMAIN sessions :
            sessions[sid].hasMadeBusinessInquiry
                => (sid \in DOMAIN sessions' /\ sessions'[sid].hasMadeBusinessInquiry) ]_vars

\* the flag is still set after a later turn with a message that is no business
\* inquiry and whose language model call failed
InquiryFlagKept ==
    \E sid \in DOMAIN sessions :
        /\ sessions[sid].hasMadeBusinessInquiry
        /\ Len(sessions[sid].messages) >= 2
        /\ lastMessage(sessions[sid]) = "what time is it"
        /\ llm = "error"

\* C4: under every interleaving of concurrent requests of a session, a lead
\* record is logged exactly on the step that takes the session's leadCollected
\* from false to true, hence at most once per session.
collectedSessions(map) == {sid \in DOMAIN map : map[sid].leadCollected}

LeadLoggedExactlyOnce ==
    /\ [](Len(leads) = Cardinality(collectedSessions(sessions)))
    /\ [][ Len(leads') - Len(leads)
             = Cardinality(collectedSessions(sessions') \ collectedSessions(sessions)) ]_vars

\* a request is suspended in logLeadToSheet while a second request of the same
\* session, carrying contact details too, has run past the lead block
ConcurrentLeadRequests ==
    /\ Len(leads) = 1
    /\ \E a, b \in DOMAIN inflight :
        /\ inflight[a].pc = "awaitLog"
        /\ inflight[b].pc = "awaitLLM"
        /\ inflight[a].sessionId = inflight[b].sessionId
        /\ analysisOf[inflight[b].message].extractLeadInfo.hasContact

\* C9: a request whose message is missing or empty is answered with status 400
\* and changes neither the sessions nor the logged leads.
EmptyMessageRejected ==
    [][ (received' # received /\ answered' \in {Undefined, ""})
            => (response' = BadRequest /\ response'.status = 400
                /\ sessions' = sessions /\ leads' = leads) ]_vars

\* an empty message was rejected while a session with history existed
EmptyMessageSeen ==
    /\ answered = ""
    /\ response.status = 400
    /\ \E sid \in DOMAIN sessions : Len(sessions[sid].messages) >= 1

\* C10: when the language model call of a turn throws, the turn is still
\* answered with status 200, agentType 'receptionist' and a deterministic
\* fallback text chosen from the session state.
MinimalFallbackTexts ==
    { Redirect1, Redirect2, Redirect3 }
        \cup { analysisOf[m].collectLeadReply : m \in Corpus }
        \cup { analysisOf[m].standardReply : m \in Corpus }

LlmFailureAnswered ==
    llm = "error" =>
        /\ response.status = 200
        /\ response.error = Undefined
        /\ response.agentType = "receptionist"
        /\ response.message # AiText
        /\ server = "minimal" => response.message \in MinimalFallbackTexts

\* a turn whose language model call threw has been answered
LlmFailureSeen ==
    /\ llm = "error"
    /\ response.status = 200
    /\ response.message \in {Redirect1, analysisOf[answered].standardReply}

(***************************************************************************)
(* Properties of the agents                                                *)
(***************************************************************************)

\* the message contains a phrase of the receptionist's escalation-trigger list,
\* compared without regard to case
containsEscalationTrigger(message) ==
    \E i \in DOMAIN escalationTriggers :
        includes(toLowerCase(message), toLowerCase(escalationTriggers[i]))

\* C5: every message that contains an escalation trigger (in any letter case) is
\* classified as an escalation by the receptionist's analyzeMessage and as
\* escalation_required by the coordinator's classifyMessage, whatever the
\* conversation's history and whatever pricing or service keywords it also has.
EscalationTriggersAlwaysEscalate ==
    (/\ call.op = "chat" /\ call.status = 200
     /\ call.message # NotAString
     /\ containsEscalationTrigger(call.message))
        => /\ call.trace.analysis.requiresEscalation
           /\ call.trace.analysis.inquiryType = "escalation"
           /\ call.trace.messageType = "escalation_required"

\* C6: whatever the message and the conversation, and also when the
\* coordinator's analysis throws, the orchestrator hands the message to the
\* receptionist, never to the sales or the coordinator agent.
AlwaysRoutedToReceptionist ==
    /\ (call.op = "chat" /\ call.status = 200)
            => (call.trace.assignedAgent = "receptionist" /\ call.result.agentType = "receptionist")
    /\ call.op = "coordinator" => call.result.details.routing.assignedAgent = "receptionist"

\* a message on which the coordinator's analysis threw was routed
RoutedAfterCoordinatorError ==
    /\ call.op = "chat" /\ call.status = 200
    /\ call.message = NotAString
    /\ call.trace.messageType = Undefined
    /\ call.trace.assignedAgent = "receptionist"

\* C7: SalesAgent.processMessage and CoordinatorAgent.processMessage return
\* message = null on every path; a response with a customer-facing message
\* comes from the receptionist only.
OnlyReceptionistSpeaks ==
    /\ call.op \in {"sales", "coordinator"} => call.result.message = Null
    /\ (call.op \in {"chat", "sales", "coordinator"} /\ call.status \notin {400, 500}
            /\ call.result.message # Null)
            => call.result.agentType = "receptionist"

\* the sales agent engaged on a high-value opportunity and stayed silent
HighValueOpportunitySilent ==
    /\ call.op = "sales"
    /\ call.result.action = "high_value_opportunity"
    /\ call.result.message = Null

\* 1 for a category the message hits, 0 otherwise
hit(signals, lowerMessage) == IF someIncluded(signals, lowerMessage) THEN 1 ELSE 0

clamp(x, lo, hi) == IF x < lo THEN lo ELSE IF x > hi THEN hi ELSE x

\* C8: the lead score is clamp(50 + 20*budget + 15*urgency + 15*authority
\* + 10*requirements + 10*ecommerce - 5*simple, 0, 100) for the categories the
\* message hits, hence within 0..100, and shouldEngage holds exactly when the
\* score is greater than 70.
LeadScoreFormula ==
    call.op = "analyzeOpportunity" =>
        LET low == toLowerCase(call.message)
            score == call.result.qualificationScore
        IN  /\ score = clamp(50 + 20 * hit(budgetSignals, low) + 15 * hit(urgencySignals, low)
                                + 15 * hit(authoritySignals, low) + 10 * hit(requirementSignals, low)
                                + 10 * hit(scopeSignals, low) - 5 * hit(lowValueSignals, low), 0, 100)
            /\ score \in 0..100
            /\ call.result.shouldEngage <=> score > 70

\* a message that hits every raising category: the sum exceeds 100 and is clamped
ScoreClampedAtHundred ==
    /\ call.op = "analyzeOpportunity"
    /\ scoreBeforeClamp(toLowerCase(call.message)) > 100
    /\ call.result.qualificationScore = 100
    /\ call.result.shouldEngage

(***************************************************************************)
(* Properties of the orchestrated chat path                                *)
(***************************************************************************)

\* C11: every message the /chat route accepts is answered with an agent
\* reply, also when a persistence call of the turn fails: the failure never
\* reaches the caller as an error.
AcceptedMessageAlwaysAnswered ==
    (call.op = "chat" /\ call.status # 400)
        => (call.status = 200 /\ "message" \in DOMAIN call.result)

\* the sends the latest call into the agents has to have attempted
fanOut(c) ==
    IF c.op = "sendImmediateEscalation" THEN immediateEscalationSends
    ELSE IF c.op = "sendEscalationNotification" THEN escalationNotificationSends(c.message)
    ELSE IF c.op = "chat" /\ c.status = 200 THEN handleAgentActions(c.result).sends
    ELSE << >>

\* C12: in each notification fan-out (sendImmediateEscalation,
\* sendEscalationNotification, the orchestrator's handleImmediateEscalation)
\* every send of the fan-out is attempted whatever the other channels do, a
\* channel that is not configured or whose provider throws reports false, and
\* the caller gets no exception: the orchestrated turn is answered with 200.
ChannelFailuresIsolated ==
    turn.phase = "idle" =>
        /\ Len(outbox) = Len(fanOut(call))
        /\ \A i \in DOMAIN outbox :
              /\ outbox[i].method = fanOut(call)[i]
              /\ outbox[i].result = (outbox[i].outcome = "sent")
        /\ (call.op = "chat" /\ outbox # << >>) => call.status = 200

\* the orchestrator's fan-out went on to Slack and push after the SMS provider
\* threw, and the turn was answered
SlackSentAfterSmsThrew ==
    /\ call.op = "chat"
    /\ call.status = 200
    /\ Len(outbox) = 3
    /\ outbox[1].outcome = "threw" /\ ~outbox[1].result
    /\ outbox[2].outcome = "sent" /\ outbox[2].result
    /\ outbox[3].result

\* C13: the reply of a turn does not wait for notification delivery: whenever
\* the notification sends of a turn are in flight, processMessage has already
\* returned the turn's reply.
ReplyDoesNotWaitForSends ==
    turn.phase = "awaitSends" => turn.replied

(***************************************************************************)
(* Properties of the fallback's redirects                                  *)
(***************************************************************************)

\* C14: while the language model is unavailable, the reply to the fourth of
\* four consecutive messages that match no business keyword is the most
\* dismissive redirect, and the reply to the first such message after a
\* business-relevant message is the first-tier redirect.
FourthOffTopicReplyMostDismissive ==
    /\ history.run >= 4 => response.message = Redirect3
    /\ (history.run = 1 /\ history.afterBusiness) => response.message = Redirect1

\* C15: after every answered turn whose message matches the business-inquiry
\* keywords, whether the language model or the fallback answered it, the
\* session's consecutive-non-business counter is 0.
CounterZeroAfterBusinessTurn ==
    (/\ response.status = 200
     /\ llm # "none"
     /\ businessInquiry(server, answered))
        => sessions[sessionKey(Undefined)].consecutiveNonBusiness = 0

(***************************************************************************)
(* Properties of escalations, callbacks and notifications                  *)
(***************************************************************************)

\* C16: when the agent response of a turn carries an escalation action
\* (immediate_escalation or escalate_to_human), the escalations table holds
\* a row of the conversation with status pending once the turn has ended.
EscalationActionLeavesPendingRecord ==
    (/\ call.op = "chat"
     /\ call.status = 200
     /\ call.result.action \in {"immediate_escalation", "escalate_to_human"})
        => \E i \in DOMAIN escalations : escalations[i].status = "pending"

expressesImmediacy(message) ==
    someIncluded(<<"right now", "immediately", "urgent", "asap">>, toLowerCase(message))

\* C18: on a conversation with contact info on file, the receptionist answers
\* a message that expresses immediacy ('right now', 'immediately', 'urgent',
\* 'asap') with action immediate_escalation and priority high.
ImmediacyEscalatesImmediately ==
    (/\ call.op = "chat"
     /\ call.status = 200
     /\ call.message \in AgentCorpus
     /\ Truthy(dbConversation.customer_name)
     /\ Truthy(dbConversation.customer_phone)
     /\ expressesImmediacy(call.message))
        => /\ call.result.action = "immediate_escalation"
           /\ call.result.priority = "high"

\* C19: an immediate escalation handled by the orchestrator attempts
\* delivery on each of the channels SMS, Slack, Email and Push.
ImmediateEscalationTriesEveryChannel ==
    (/\ turn.phase = "idle"
     /\ call.op = "chat"
     /\ call.status = 200
     /\ call.result.action = "immediate_escalation")
        => {outbox[i].channel : i \in DOMAIN outbox} = {"sms", "slack", "email", "push"}

\* C20: for every message that contains an escalation trigger, the
\* receptionist's processMessage returns action collect_contact_info with
\* nextStep collect_name and escalationPending true when the conversation
\* holds no customer_name, and action assess_urgency when it holds one; the
\* turn sends no notification and inserts neither an escalation nor a task.
TriggerAsksForContactOrUrgency ==
    [][ /\ (turn'.phase = "awaitSends" /\ turn.phase = "idle")
            => ~containsEscalationTrigger(turn'.message)
        /\ (/\ turn.phase = "idle"
            /\ turn'.phase = "idle"
            /\ dbConversation' # dbConversation
            /\ call'.op = "chat"
            /\ call'.status = 200
            /\ call'.message \in AgentCorpus
            /\ containsEscalationTrigger(call'.message))
            => /\ IF Truthy(dbConversation.customer_name)
                  THEN call'.result.action = "assess_urgency"
                  ELSE /\ call'.result.action = "collect_contact_info"
                       /\ "escalationPending" \in DOMAIN call'.result.details
                       /\ call'.result.details.escalationPending
                       /\ call'.result.details.nextStep = "collect_name"
               /\ outbox' = << >>
               /\ escalations' = escalations
               /\ tasks' = tasks
      ]_vars

(***************************************************************************)
(* Concurrent calls of AgentOrchestrator.processMessage.  A call is cut at *)
(* the awaits of getConversationContext: the select of getConversation,    *)
(* then the insert of createConversation if the select found no row; the   *)
(* rest of processMessage runs on the conversation the call then holds.    *)
(***************************************************************************)

ConversationIdInputs == {"conv-1", "conv-2"}
\* messages whose replies need no notification send
OverlappingMessageInputs == {"hello", "how much for a simple site", "Dana"}

InitOrchestrator ==
    /\ server = "minimal"
    /\ sessions = EmptyMap
    /\ leads = << >>
    /\ inflight = << >>
    /\ response = NoResponse
    /\ answered = Undefined
    /\ llm = "none"
    /\ received = 0
    /\ history = NoHistory
    /\ responded = 0
    /\ dbConversation = ConversationRow(Undefined, NoCustomer)
    /\ outbox = << >>
    /\ call = NoCall
    /\ escalations = << >>
    /\ tasks = << >>
    /\ configured = ConfigurableChannels
    /\ turn = NoTurn
    /\ analysisOf = << >>
    /\ agentAnalysisOf = AgentAnalysisTable
    /\ conversations = NoRows
    /\ processing = [caller \in Callers |-> NotCalled]

\* processMessage starts: getConversationContext selects the row of the id;
\* data || null
GetConversation(caller, conversationId, message) ==
    /\ processing[caller].pc = "idle"
    /\ processing' = [processing EXCEPT ![caller] =
            [ pc |-> IF conversationId \in DOMAIN conversations THEN "context" ELSE "create",
              conversationId |-> conversationId,
              message |-> message,
              conversation |-> IF conversationId \in DOMAIN conversations
                               THEN conversations[conversationId] ELSE Null ]]
    /\ UNCHANGED <<serverVars, agentVars, tables, conversations>>

\* if (!conversation): the insert of createConversation.  id is the primary
\* key of the table, so the insert of an id that has a row by now returns an
\* error, which createConversation, getConversationContext and processMessage
\* each rethrow.
CreateConversation(caller) ==
    /\ processing[caller].pc = "create"
    /\ LET id == processing[caller].conversationId
       IN  IF id \in DOMAIN conversations
           THEN /\ processing' = [processing EXCEPT ![caller].pc = "failed"]
                /\ UNCHANGED conversations
           ELSE /\ conversations' = conversations @@ (id :> ConversationRow(Undefined, NoCustomer))
                /\ processing' = [processing EXCEPT
                        ![caller].pc = "context",
                        ![caller].conversation = ConversationRow(Undefined, NoCustomer)]
    /\ UNCHANGED <<serverVars, agentVars, tables>>

\* the rest of processMessage: the messages are saved, the agent answers and
\* the row is updated; the call returns the agent's reply
ProcessInContext(caller) ==
    /\ processing[caller].pc = "context"
    /\ LET id == processing[caller].conversationId
           r == Orchestrator_processMessage(processing[caller].conversation,
                                            processing[caller].message)
       IN  /\ conversations' = [conversations EXCEPT ![id] =
                    [r.conversation EXCEPT !.messageCount = conversations[id].messageCount + 2]]
           /\ processing' = [processing EXCEPT ![caller] =
                    [ pc |-> "done", conversationId |-> id,
                      message |-> processing[caller].message,
                      conversation |-> processing[caller].conversation,
                      reply |-> r.response ]]
    /\ UNCHANGED <<serverVars, agentVars, tables>>

NextOrchestrator ==
    \/ \E caller \in Callers, conversationId \in ConversationIdInputs,
            message \in OverlappingMessageInputs :
            GetConversation(caller, conversationId, message)
    \/ \E caller \in Callers : CreateConversation(caller)
    \/ \E caller \in Callers : ProcessInContext(caller)

SpecOrchestrator == InitOrchestrator /\ [][NextOrchestrator]_vars

(***************************************************************************)
(* Properties of the chat handler's steps                                  *)
(***************************************************************************)

\* does the text start with the prefix
hasPrefix(text, prefix) ==
    Len(text) >= Len(prefix) /\ SubSeq(text, 1, Len(prefix)) = prefix

\* how the thank-you for a collected lead starts
thanksPrefix(name) == "Thanks " \o name \o "! I've got your information"

\* C21: a turn that starts with hasMadeBusinessInquiry true and leadCollected
\* false and whose message yields a contact field merges the fields into
\* leadInfo, answers with the thank-you naming the collected name exactly when
\* name and email-or-phone are now present and with a follow-up question
\* otherwise, and stops: the language model is not called, and hasGreeted,
\* hasMadeBusinessInquiry and leadInfo.inquiry are as they were.
LeadBlockAnswersAndStops ==
    [][ \A sid \in DOMAIN sessions :
          (/\ received' = received + 1
           /\ sessions[sid].hasMadeBusinessInquiry
           /\ ~sessions[sid].leadCollected
           /\ answered' \in Corpus
           /\ analysisOf[answered'].extractLeadInfo.hasContact)
          => LET before == sessions[sid]
                 after == sessions'[sid]
                 leadData == analysisOf[answered'].extractLeadInfo
                 merged(old, new) == IF new # Undefined THEN new ELSE old
             IN  /\ llm' = "none"
                 /\ response'.status = 200
                 /\ after.leadInfo.name = merged(before.leadInfo.name, leadData.name)
                 /\ after.leadInfo.email = merged(before.leadInfo.email, leadData.email)
                 /\ after.leadInfo.phone = merged(before.leadInfo.phone, leadData.phone)
                 /\ after.leadInfo.inquiry = before.leadInfo.inquiry
                 /\ after.hasGreeted = before.hasGreeted
                 /\ after.hasMadeBusinessInquiry
                 /\ after.leadCollected = leadComplete(after.leadInfo)
                 /\ leadComplete(after.leadInfo)
                        <=> hasPrefix(response'.message, thanksPrefix(after.leadInfo.name))
                 /\ ~leadComplete(after.leadInfo)
                        => response'.message = followUpReply(after.leadInfo, leadData)
      ]_vars

\* a name given in one turn was followed up, and the email given in the next
\* completed the lead and was thanked for by name
ThankedAfterFollowUp ==
    /\ received >= 3
    /\ answered = "dana@example.com"
    /\ llm = "none"
    /\ \E sid \in DOMAIN sessions :
          /\ sessions[sid].leadCollected
          /\ sessions[sid].leadInfo.name = "Dana"
          /\ response.message = thanksReply(sessions[sid])

\* the session a turn starts with: the stored one, or a new one
sessionAtStart(sid) == getSession(sessions, sid)[sid]

\* C22: a turn that starts with hasGreeted false, does not collect contact
\* details and whose message is a greeting sets hasGreeted, answers with the
\* fixed greeting without calling the language model, and leaves
\* hasMadeBusinessInquiry, leadCollected and leadInfo as they were, business
\* keywords in the message or not; the fixed greeting is sent only by a turn
\* that takes hasGreeted from false to true, and hasGreeted is never reset,
\* so a session is greeted at most once.
GreetingTurnOnlyGreets ==
    /\ [][ \A sid \in {sessionKey(Undefined)} :
            LET before == sessionAtStart(sid)
            IN  (/\ received' = received + 1
                 /\ answered' \in Corpus
                 /\ ~before.hasGreeted
                 /\ ~(before.hasMadeBusinessInquiry /\ ~before.leadCollected
                       /\ analysisOf[answered'].extractLeadInfo.hasContact)
                 /\ analysisOf[answered'].isGreeting)
                => /\ sessions'[sid].hasGreeted
                   /\ response'.status = 200
                   /\ response'.message = "Hello! I'm here to help with your web development needs. What can I assist you with today?"
                   /\ llm' = "none"
                   /\ sessions'[sid].hasMadeBusinessInquiry = before.hasMadeBusinessInquiry
                   /\ sessions'[sid].leadCollected = before.leadCollected
                   /\ sessions'[sid].leadInfo = before.leadInfo
          ]_vars
    /\ [][ \A sid \in {sessionKey(Undefined)} :
            /\ (received' = received + 1 /\ response'.message = GreetingReply)
                => (~sessionAtStart(sid).hasGreeted /\ sessions'[sid].hasGreeted)
            /\ (sid \in DOMAIN sessions /\ sessions[sid].hasGreeted)
                => (sid \in DOMAIN sessions' /\ sessions'[sid].hasGreeted)
          ]_vars

\* a first message that greets and asks for a website was answered with the
\* greeting alone
GreetedDespiteBusinessKeywords ==
    /\ received = 1
    /\ answered = "hi, I need a website"
    /\ response.message = GreetingReply
    /\ llm = "none"
    /\ sessions[sessionKey(Undefined)].hasGreeted
    /\ ~sessions[sessionKey(Undefined)].hasMadeBusinessInquiry

\* C23: hasMadeBusinessInquiry is set only on a turn that starts with
\* hasGreeted true, so in every reachable session hasMadeBusinessInquiry
\* implies hasGreeted, and leadInfo.inquiry is recorded only together with
\* the flag.
InquiryOnlyAfterGreeting ==
    \A sid \in DOMAIN sessions :
        /\ sessions[sid].hasMadeBusinessInquiry => sessions[sid].hasGreeted
        /\ sessions[sid].leadInfo.inquiry # Undefined => sessions[sid].hasMadeBusinessInquiry

\* C25: once a session's leadCollected is true, its leadInfo.name,
\* leadInfo.email and leadInfo.phone are the same after every later step,
\* whether the language model or the fallback responder answers.
CollectedLeadIsFrozen ==
    [][ \A sid \in DOMAIN sessions :
            sessions[sid].leadCollected
            => /\ sessions'[sid].leadCollected
               /\ sessions'[sid].leadInfo.name = sessions[sid].leadInfo.name
               /\ sessions'[sid].leadInfo.email = sessions[sid].leadInfo.email
               /\ sessions'[sid].leadInfo.phone = sessions[sid].leadInfo.phone
      ]_vars

\* the sessions Map after the requests are processed one after the other:
\* each runs to its response before the next one starts
RECURSIVE sequentialRun(_, _, _, _, _)
sequentialRun(srv, map, sid, requests, i) ==
    IF i > Len(requests) THEN map
    ELSE LET r == chatSync(srv, map, sid, requests[i].message)
             fin == IF r.next = "respond" THEN r.sessions
                    ELSE IF r.next = "awaitLog" THEN afterLog(r.sessions, sid).sessions
                    ELSE afterLLM(srv, r.sessions, sid, requests[i].message,
                                  requests[i].outcome).sessions
         IN  sequentialRun(srv, fin, sid, requests, i + 1)

\* the fields of a session that the conversation flow rests on
flowFields(session) ==
    [ hasGreeted |-> session.hasGreeted,
      hasMadeBusinessInquiry |-> session.hasMadeBusinessInquiry,
      leadCollected |-> session.leadCollected,
      leadInfo |-> session.leadInfo,
      messages |-> session.messages ]

\* C26: when the requests of a session, received while others of the same
\* session were suspended at the language model call or the lead logging,
\* have all been answered by the handler of minimal-server.js, the session's
\* hasGreeted, hasMadeBusinessInquiry, leadCollected, leadInfo and messages
\* are what processing the same requests one after the other in arrival
\* order gives, whatever the language model calls returned.
InterleavingsEqualArrivalOrder ==
    (server = "minimal" /\ DOMAIN inflight = {})
    => \A sid \in DOMAIN sessions :
         LET arrived == sessions[sid].messages
         IN  \A outcomes \in [DOMAIN arrived -> Outcomes] :
               LET requests == [i \in DOMAIN arrived |->
                                  [message |-> arrived[i].content, outcome |-> outcomes[i]]]
               IN  flowFields(sequentialRun(server, EmptyMap, sid, requests, 1)[sid])
                       = flowFields(sessions[sid])

\* the price question was answered after the name that arrived behind it: the
\* name was taken while the question waited for the language model
NameTakenWhileQuestionWaited ==
    /\ server = "minimal"
    /\ DOMAIN inflight = {}
    /\ answered = "how much does a website cost"
    /\ \E sid \in DOMAIN sessions :
          /\ Len(sessions[sid].messages) = 3
          /\ sessions[sid].messages[2].content = "how much does a website cost"
          /\ sessions[sid].messages[3].content = "Dana"
          /\ sessions[sid].leadInfo.name = "Dana"

(***************************************************************************)
(* Properties of the receptionist's flow through the orchestrator          *)
(***************************************************************************)

\* the /chat turn of this step ran to its reply without a notification send
answeredChatStep ==
    /\ turn.phase = "idle"
    /\ turn'.phase = "idle"
    /\ dbConversation'.messageCount = dbConversation.messageCount + 2
    /\ call'.op = "chat"
    /\ call'.status = 200
    /\ call'.message \in AgentCorpus

\* the reply asks for the contact detail of the given step
asksFor(reply, step) ==
    /\ reply.action = "collect_contact_info"
    /\ "nextStep" \in DOMAIN reply.details
    /\ reply.details.nextStep = step

\* C24: in the orchestrated receptionist flow, a conversation that was asked
\* for its contact name and answers with a valid name (and nothing that the
\* classifier reads as an inquiry) on the next turn advances to collect_phone with the name stored (and from there, with a
\* valid phone and email, to collect_email and contact complete).
ContactFlowAdvancesOnValidName ==
    [][ (/\ call.op = "chat"
         /\ call.status = 200
         /\ asksFor(call.result, "collect_name")
         /\ answeredChatStep
         /\ agentAnalysisOf[call'.message].validateName
         /\ agentAnalysisOf[call'.message].classifyInquiry = "general")
        => /\ asksFor(call'.result, "collect_phone")
           /\ dbConversation'.customer_name = agentAnalysisOf[call'.message].trim
      ]_vars

\* C27: when two processMessage calls carry the same conversation id that had
\* no row, neither call fails: each creates or finds the conversation and
\* completes with the agent's reply.
NoCallFailsOnSharedNewConversation ==
    \A caller \in Callers : processing[caller].pc # "failed"

\* C28: the receptionist answers with action immediate_escalation only for a
\* conversation that has a customer name and a phone number on file (the
\* customerInfo of the reply is what the conversation held).
ImmediateEscalationOnlyWithContact ==
    (/\ call.op = "chat"
     /\ call.status = 200
     /\ call.result.action = "immediate_escalation")
    => /\ Truthy(call.result.details.customerInfo.name)
       /\ Truthy(call.result.details.customerInfo.phone)

\* C29: when no database call fails, the receptionist never answers a text
\* message with the 'technical issue' error_recovery reply: whatever the
\* inquiry type, a handler produces a normal reply.
ReceptionistNeverInErrorRecovery ==
    (/\ call.op = "chat"
     /\ call.status = 200
     /\ call.message \in AgentCorpus
     /\ call.result.agentType = "receptionist")
    => /\ call.result.action # "error_recovery"
       /\ call.result.message # getErrorResponse.message

\* C30: every request to the chat handler is answered exactly once, on every
\* path: a request that is not suspended has been sent one response and a
\* suspended one none yet; a step that receives a request without suspending
\* it, or that resumes a suspended one, sends exactly one response; and a
\* suspended request is eventually answered, provided its language model or
\* lead-logging call settles.
EveryRequestAnsweredOnce ==
    /\ [](responded + Cardinality(DOMAIN inflight) = received)
    /\ [][ /\ (received' = received + 1 /\ inflight' = inflight)
               => (responded' = responded + 1 /\ response'.status \in {200, 400, 500})
           /\ (received' = received + 1 /\ inflight' # inflight)
               => responded' = responded
           /\ (received' = received /\ inflight' # inflight)
               => (responded' = responded + 1 /\ response'.status \in {200, 500})
         ]_vars
    /\ \A slot \in Slots : (slot \in DOMAIN inflight) ~> (slot \notin DOMAIN inflight)

\* two requests were suspended together, and both have been answered, the
\* last one by the fallback after its language model call failed
BothSuspendedRequestsAnswered ==
    /\ received = 2
    /\ responded = 2
    /\ DOMAIN inflight = {}
    /\ llm = "error"
    /\ response.status = 200
    /\ \E sid \in DOMAIN sessions :
          /\ Len(sessions[sid].messages) = 2
          /\ answered = sessions[sid].messages[1].content
          /\ answered # sessions[sid].messages[2].content

====
